---- MODULE Spec2Model ----
(***************************************************************************)
(* Model of the bulk-send pipeline of kx-email-utils:                      *)
(*   BulkEmailService  (src/src/services/tokens.ts, lines 236-637)         *)
(*   EmailService      (src/src/index.ts, lines 161-633)                   *)
(*   SESEmailService   (src/unnamed/part_007)                              *)
(*   BounceTracker     (src/unnamed/part_008)                              *)
(* One bulk call is followed from its invocation to the value it returns.  *)
(* The external services (SES, DynamoDB, SQS) settle their requests in any *)
(* order and with any outcome.                                             *)
(***************************************************************************)
EXTENDS Integers, Sequences, FiniteSets, TLC

\* ------------------------------------------------------------------ bounds

\* Longest recipient list of a call.
MaxRecipients == 2

\* ------------------------------------------------------- program constants

DefaultMaxImmediateBatchSize == 50
DefaultChunkSize == 10
SleepMs == 50
SoftBounceHours == 24
MsPerHour == 1000 * 60 * 60

\* ------------------------------------------------------------ value domain

\* Strings the code inspects character by character are sequences of
\* one-character strings.
AddrA == <<"a", "@", "x", ".", "o">>
AddrB == <<"b", "@", "x", ".", "o">>
\* The first address as a caller or a notification may write it.
AddrAUpper == <<"A", "@", "x", ".", "o">>
AddrBad == <<"b", "a", "d">>

\* A key of personalizedData whose pattern `{{key}}` is not a regular
\* expression: new RegExp throws a SyntaxError for it.
KeyParen == <<"(">>
KeyName == <<"n">>

\* personalizedData is the list of the object's entries, in insertion order;
\* hasData is FALSE for a recipient without the field.
Rcpt(email, hasData, data) ==
    [email |-> email, hasData |-> hasData, personalizedData |-> data]

RcptPlainA == Rcpt(AddrA, FALSE, <<>>)
RcptDataB == Rcpt(AddrB, TRUE, << <<KeyName, <<"B">> >> >>)
RcptBadAddr == Rcpt(AddrBad, FALSE, <<>>)
RcptBadKey == Rcpt(AddrA, TRUE, << <<KeyParen, <<"v">> >> >>)

\* Recipients a caller of BulkEmailService.sendBulkEmails may pass.
RecipientUniverse == {RcptPlainA, RcptDataB, RcptBadAddr, RcptBadKey}

\* EmailService.sendBulkEmail takes plain address strings.
AddressUniverse == {AddrA, AddrB, AddrBad}

SeqsUpTo(S, n) == UNION {[1..k -> S] : k \in 0..n}

\* ---------------------------------------------------------- bounce records

\* An item of the bounce table as hasEmailBounced reads it: the bounce type
\* and the age (now - timestamp) in milliseconds at the time of the lookup.
Item(type, ageMs) == [bounceType |-> type, ageMs |-> ageMs]

\* What a Query with ScanIndexForward=false, Limit=1 can find for a key: the
\* items of the key, most recent first.
ItemLists ==
    { <<>>,
      << Item("hard", 40 * MsPerHour) >>,
      << Item("complaint", 40 * MsPerHour) >>,
      << Item("soft", SoftBounceHours * MsPerHour - 1) >>,
      << Item("soft", SoftBounceHours * MsPerHour) >>,
      << Item("soft", 30 * MsPerHour), Item("hard", 40 * MsPerHour) >> }

\* String.prototype.toLowerCase on the letters used here.
LowerChar(ch) ==
    CASE ch = "A" -> "a"
      [] ch = "B" -> "b"
      [] ch = "X" -> "x"
      [] ch = "O" -> "o"
      [] OTHER -> ch

toLowerCase(s) == [i \in 1..Len(s) |-> LowerChar(s[i])]

\* The Limit: 1 of the query.
QueryLatest(items) == IF Len(items) = 0 THEN <<>> ELSE << items[1] >>

hasEmailBouncedWrongWindow(threw, items) ==
    IF threw THEN FALSE
    ELSE IF Len(items) = 0 THEN FALSE
    ELSE LET latestBounce == items[1] IN
         IF latestBounce.bounceType \in {"hard", "complaint"} THEN TRUE
         ELSE IF latestBounce.bounceType = "soft"
              THEN latestBounce.ageMs <= SoftBounceHours * MsPerHour
              ELSE FALSE

\* BounceTracker.hasEmailBounced on the outcome of its query: `threw` when
\* docClient.send rejected, otherwise the Items it returned.
\* hoursSinceBounce < 24 is ageMs / (1000*60*60) < 24.
hasEmailBounced(threw, items) ==
    IF threw THEN FALSE
    ELSE IF Len(items) = 0 THEN FALSE
    ELSE LET latestBounce == items[1] IN
         IF latestBounce.bounceType \in {"hard", "complaint"} THEN TRUE
         ELSE IF latestBounce.bounceType = "soft"
              THEN latestBounce.ageMs < SoftBounceHours * MsPerHour
              ELSE FALSE

\* --------------------------------------------------------------- validation

\* emailRegex = /^[^\s@]+@[^\s@]+\.[^\s@]+$/
emailRegexTest(s) ==
    \E i, j \in 1..Len(s) :
        /\ s[i] = "@"
        /\ s[j] = "."
        /\ 1 < i
        /\ i + 1 < j
        /\ j < Len(s)
        /\ \A k \in (1..Len(s)) \ {i} : s[k] \notin {"@", " "}

\* new RegExp(`{{${key}}}`, 'g') throws for a key that leaves a group open.
RegExpThrows(key) == \E i \in 1..Len(key) : key[i] \in {"(", ")", "["}

\* replaceTokens throws when the pattern of one of the keys does.
replaceTokensThrows(data) == \E i \in 1..Len(data) : RegExpThrows(data[i][1])

\* JavaScript values of a data map: the kind and, for a string, number or
\* boolean, the characters of its string form.
JsValue(kind, str) == [kind |-> kind, str |-> str]
JsString(str) == JsValue("string", str)
JsUndefined == JsValue("undefined", <<>>)
JsNull == JsValue("null", <<>>)
JsZero == JsValue("number", <<"0">>)
JsSeven == JsValue("number", <<"7">>)
JsFalse == JsValue("boolean", <<"f", "a", "l", "s", "e">>)

\* value || '' takes the right-hand side for a falsy value.
Falsy(v) ==
    \/ v.kind \in {"undefined", "null"}
    \/ v = JsZero
    \/ v = JsFalse
    \/ v = JsString(<<>>)

\* String(value || '')
StringOfValueOrEmpty(v) == IF Falsy(v) THEN <<>> ELSE v.str

\* The source of the pattern: `{{${key}}}`.
PatternOf(key) == <<"{", "{">> \o key \o <<"}", "}">>

\* One pattern character against one character of the text: "." matches any
\* character (there are no line terminators here), another character itself.
CharMatches(p, c) == p = "." \/ p = c

\* The pattern matches the text at position i.
MatchAt(pat, text, i) ==
    /\ i + Len(pat) - 1 <= Len(text)
    /\ \A k \in 1..Len(pat) : CharMatches(pat[k], text[i + k - 1])

\* The replacement string of String.prototype.replace: $$ inserts "$" and $&
\* the matched text.
RECURSIVE Expand(_, _)
Expand(repl, matched) ==
    IF repl = <<>> THEN <<>>
    ELSE IF Len(repl) >= 2 /\ repl[1] = "$" /\ repl[2] = "$"
    THEN <<"$">> \o Expand(SubSeq(repl, 3, Len(repl)), matched)
    ELSE IF Len(repl) >= 2 /\ repl[1] = "$" /\ repl[2] = "&"
    THEN matched \o Expand(SubSeq(repl, 3, Len(repl)), matched)
    ELSE <<repl[1]>> \o Expand(Tail(repl), matched)

\* result.replace(regex, repl) with the g flag, from position i on: matches
\* are taken left to right and do not overlap.
RECURSIVE replaceFrom(_, _, _, _)
replaceFrom(text, pat, repl, i) ==
    IF i > Len(text) THEN <<>>
    ELSE IF MatchAt(pat, text, i)
    THEN Expand(repl, SubSeq(text, i, i + Len(pat) - 1))
         \o replaceFrom(text, pat, repl, i + Len(pat))
    ELSE <<text[i]>> \o replaceFrom(text, pat, repl, i + 1)

\* The loop of replaceTokens over Object.entries(data), from entry k on:
\* `replaced` is the value assigned to result by the replace of entry k, which
\* the replace of the next entry works on.
RECURSIVE replaceEntries(_, _, _)
replaceEntries(result, data, k) ==
    IF k > Len(data) THEN result
    ELSE CHOOSE final \in
             { replaceEntries(replaced, data, k + 1) :
                 replaced \in { replaceFrom(result, PatternOf(data[k][1]),
                                            StringOfValueOrEmpty(data[k][2]), 1) } } :
             TRUE

\* replaceTokens for data none of whose keys makes the RegExp throw.
replaceTokens(content, data) == replaceEntries(content, data, 1)

\* How a call ends: it returns a value or throws an error.
Return(value) == [threw |-> FALSE, value |-> value]
Throw(error) == [threw |-> TRUE, value |-> error]
SyntaxError == "SyntaxError"

\* personalizeContent: the three parts, each through replaceTokens; the
\* SyntaxError of new RegExp leaves the function.
personalizeContent(content, data) ==
    IF replaceTokensThrows(data) THEN Throw(SyntaxError)
    ELSE Return([subject |-> replaceTokens(content.subject, data),
                 html |-> replaceTokens(content.html, data),
                 text |-> replaceTokens(content.text, data)])

\* personalizeContent of lambda/bulk-processor.ts, on one string.
lambdaPersonalizeContent(content, data) ==
    IF replaceTokensThrows(data) THEN Throw(SyntaxError)
    ELSE Return(replaceEntries(content, data, 1))

\* The sender and the base content of the calls followed here.
AddrFrom == <<"s", "@", "x", ".", "o">>
BaseContent ==
    [subject |-> PatternOf(KeyName), html |-> <<"H">> \o PatternOf(KeyName),
     text |-> <<"T">>]
EmptyContent == [subject |-> <<"S">>, html |-> <<>>, text |-> <<>>]

\* What a caller passes as sender and content: both valid, a malformed
\* sender, a content with neither html nor text.
CallInputs ==
    { [from |-> AddrFrom, content |-> BaseContent],
      [from |-> AddrBad, content |-> BaseContent],
      [from |-> AddrFrom, content |-> EmptyContent] }

\* SESEmailService.validateMessage for a single recipient: "ok" or the
\* error it throws.
validateMessageSkipsRecipients(from, to, content) ==
    IF Len(from) = 0 THEN "Sender email address is required"
    ELSE IF Len(to) = 0 THEN "Recipient email address is required"
    ELSE IF Len(content.subject) = 0 THEN "Email subject is required"
    ELSE IF Len(content.html) = 0 /\ Len(content.text) = 0
         THEN "Email content (HTML or text) is required"
    ELSE IF ~emailRegexTest(from) THEN "Invalid sender email address"
    ELSE "ok"

validateMessage(from, to, content) ==
    IF Len(from) = 0 THEN "Sender email address is required"
    ELSE IF Len(to) = 0 THEN "Recipient email address is required"
    ELSE IF Len(content.subject) = 0 THEN "Email subject is required"
    ELSE IF Len(content.html) = 0 /\ Len(content.text) = 0
         THEN "Email content (HTML or text) is required"
    ELSE IF ~emailRegexTest(from) THEN "Invalid sender email address"
    ELSE IF ~emailRegexTest(to) THEN "Invalid recipient email address"
    ELSE "ok"

\* -------------------------------------------------------- template registry

\* The value of a missing property.
Undefined == JsUndefined

TemplateTypes == {"invite", "resetPassword", "welcome"}
Locales == {"en", "es", "fr"}
Definitions == {"D1", "D2"}

\* new MustacheTemplateRenderer(definition, locale)
MustacheTemplateRenderer(definition, locale) ==
    [definition |-> definition, locale |-> locale]

\* A Record<Locale, TemplateRenderer> is the list of its entries
\* <<locale, renderer>> in insertion order, no locale twice.
ObjectKeys(record) == [k \in 1..Len(record) |-> record[k][1]]

\* record[locale]: the renderer, or undefined.
Lookup(record, locale) ==
    IF \E k \in 1..Len(record) : record[k][1] = locale
    THEN record[CHOOSE k \in 1..Len(record) : record[k][1] = locale][2]
    ELSE Undefined

\* record[locale] = renderer: an existing key keeps its place, a new one
\* comes last.
Assign(record, locale, renderer) ==
    IF \E k \in 1..Len(record) : record[k][1] = locale
    THEN [k \in 1..Len(record) |->
            IF record[k][1] = locale THEN <<locale, renderer>> ELSE record[k]]
    ELSE Append(record, <<locale, renderer>>)

\* this.templates = { invite: {}, resetPassword: {} }
EmptyTemplates == [type \in {"invite", "resetPassword"} |-> <<>>]

\* TemplateRegistry.constructor
TemplateRegistry(defaultLocale) ==
    [defaultLocale |-> defaultLocale, templates |-> EmptyTemplates]

\* this.templates[type] || {}: a type that is not a key gives undefined.
TemplatesOrEmpty(registry, type) ==
    IF type \in DOMAIN registry.templates THEN registry.templates[type]
    ELSE <<>>

\* this.templates[type] = record
SetType(registry, type, record) ==
    [registry EXCEPT !.templates =
        [t \in DOMAIN registry.templates \cup {type} |->
            IF t = type THEN record ELSE registry.templates[t]]]

\* TemplateRegistry.registerTemplate
registerTemplate(registry, type, locale, renderer) ==
    SetType(registry, type,
            Assign(TemplatesOrEmpty(registry, type), locale, renderer))

\* TemplateRegistry.registerFromDefinition
registerFromDefinition(registry, type, locale, definition) ==
    registerTemplate(registry, type, locale,
                     MustacheTemplateRenderer(definition, locale))

\* A locale argument that is left out; like the empty string it is falsy.
NoLocale == ""

\* locale || this.defaultLocale
TargetLocale(registry, locale) ==
    IF locale = NoLocale THEN registry.defaultLocale ELSE locale

getTemplateExactOnly(registry, type, locale) ==
    Lookup(TemplatesOrEmpty(registry, type), TargetLocale(registry, locale))

\* TemplateRegistry.getTemplate: the exact locale, then the default locale,
\* then the first locale the type has.
getTemplate(registry, type, locale) ==
    LET targetLocale == TargetLocale(registry, locale)
        ofType == TemplatesOrEmpty(registry, type)
        availableLocales == ObjectKeys(ofType)
    IN IF Lookup(ofType, targetLocale) # Undefined
       THEN Lookup(ofType, targetLocale)
       ELSE IF targetLocale # registry.defaultLocale
               /\ Lookup(ofType, registry.defaultLocale) # Undefined
       THEN Lookup(ofType, registry.defaultLocale)
       ELSE IF Len(availableLocales) > 0
       THEN Lookup(ofType, availableLocales[1])
       ELSE Undefined

\* A Partial<TemplateCollection>: the types it gives a record, and the keys
\* whose value is undefined.
PartialCollection(given, undefinedKeys) ==
    [given |-> given, undefinedKeys |-> undefinedKeys]

\* TemplateRegistry.setTemplates: of the keys of the collection those with a
\* record replace the registry's; the order of the keys makes no difference.
setTemplates(registry, collection) ==
    LET keys == DOMAIN collection.given \cup collection.undefinedKeys
        truthy == {key \in keys : key \in DOMAIN collection.given}
    IN [registry EXCEPT !.templates =
           [t \in DOMAIN registry.templates \cup truthy |->
               IF t \in truthy THEN collection.given[t]
               ELSE registry.templates[t]]]

\* TemplateRegistry.hasTemplate
hasTemplate(registry, type, locale) ==
    getTemplate(registry, type, locale) # Undefined

\* The message of the error renderTemplate throws.
NotFound(registry, type, locale) ==
    << "Template '", type, "' not found", " for locale '",
       TargetLocale(registry, locale), "'" >>

\* TemplateRegistry.renderTemplate; `rendered` is how template.render ends.
renderTemplate(registry, type, locale, rendered) ==
    LET template == getTemplate(registry, type, locale)
    IN IF template = Undefined THEN Throw(NotFound(registry, type, locale))
       ELSE rendered

\* TemplateRegistry.clear
clear(registry) == [registry EXCEPT !.templates = EmptyTemplates]

\* config.templates is not given.
NoTemplates == Undefined

\* EmailService.loadDefaultTemplates: it logs a line and registers nothing.
loadDefaultTemplates(registry) == registry

\* The template registry EmailService.constructor leaves: a new registry,
\* loadDefaultTemplates, then setTemplates(config.templates) when given.
EmailServiceRegistry(configTemplates) ==
    LET loaded == loadDefaultTemplates(TemplateRegistry("en"))
    IN IF configTemplates = NoTemplates THEN loaded
       ELSE setTemplates(loaded, configTemplates)

\* ------------------------------------------------------------------- state

VARIABLES
    config,            \* this.config of the service, after the constructor
    bounceTable,       \* the DynamoDB bounce table: key -> items, latest first
    pc,                \* where the call is
    path,              \* "none" | "immediate" | "queue" | "fallback"
    from,              \* options.from || config.defaultFrom
    recipients,        \* job.recipients
    options,           \* forceQueue, scheduledFor (set or not), chunkSize
    bounceChecks,      \* the Promise.allSettled array of the bounce lookups
    lookupThrew,       \* indices whose bounce query threw
    activeRecipients,  \* indices (into recipients) that passed the filter
    idx,               \* position of the for loop in activeRecipients
    results,           \* results: EmailResult[]
    successCount,
    failureCount,
    inFlight,          \* recipients whose SES SendEmail request is pending
    sesCalls,          \* recipients handed to sesService.sendEmail, in order
    sesOutcomes,       \* <<recipient, outcome>> of each sendEmail call that returned
    sleeps,            \* number of sleep(50) timers that were started
    timer,             \* milliseconds the pending sleep was set to; 0: no sleep pending
    bulkSends,         \* Promise.allSettled array of SESEmailService.sendBulkEmail
    sqsSends,          \* the chunk messages sent to SQS, with their status
    ret,               \* the BulkEmailResult the call returned
    emailContent,      \* job.emailContent, the base content of the call
    sentContent,       \* the content of each message handed to sesService
    templateRegistry,  \* the TemplateRegistry of the EmailService
    jobId,             \* the id generateJobId gives the call, from clock and random
    fn,                \* the function applied on its own ("none": not yet)
    arg,               \* its arguments
    out                \* what it returned

vars == << config, bounceTable, emailContent, pc, path, from, recipients, options,
           bounceChecks, lookupThrew, activeRecipients, idx, results,
           successCount, failureCount, inFlight, sesCalls, sentContent, sesOutcomes,
           sleeps, timer, bulkSends, sqsSends, ret, templateRegistry, jobId,
           fn, arg, out >>

\* The variables of a function applied on its own.
pureVars == << fn, arg, out >>

\* The variables of the template registry.
registryVars == << templateRegistry >>

\* The variables of a bulk call.
bulkVars == << config, bounceTable, emailContent, pc, path, from, recipients, options,
               bounceChecks, lookupThrew, activeRecipients, idx, results,
               successCount, failureCount, inFlight, sesCalls, sentContent, sesOutcomes,
               sleeps, timer, bulkSends, sqsSends, ret, jobId >>

\* ------------------------------------------------------------ construction

\* What the caller's config may set besides the required fields.
ConfigOverrides == { [maxImmediateBatchSize |-> 1, defaultChunkSize |-> 1] }

CallerConfigs ==
    [bulkQueueUrl : BOOLEAN, bounceTableName : BOOLEAN, overridden : BOOLEAN,
     overrides : ConfigOverrides]

Override(c, key, default) ==
    IF c.overridden /\ key \in DOMAIN c.overrides THEN c.overrides[key]
    ELSE default

\* BulkEmailService.constructor: the defaults, then the caller's config
\* spread over them.  sqsClient exists iff bulkQueueUrl is set, bounceTracker
\* iff bounceTableName is set.
BulkEmailConfig(c) ==
    [bulkQueueUrl |-> c.bulkQueueUrl,
     bounceTableName |-> c.bounceTableName,
     maxImmediateBatchSize |->
         Override(c, "maxImmediateBatchSize", DefaultMaxImmediateBatchSize),
     defaultChunkSize |-> Override(c, "defaultChunkSize", DefaultChunkSize)]

sqsClient == config.bulkQueueUrl
bounceTracker == config.bounceTableName
\* EmailService.constructor creates the bulk service iff bulkQueueUrl is set.
bulkEmailService == config.bulkQueueUrl

\* Keys of the bounce table and what the table may hold for each.
TableKeys == {AddrA, AddrAUpper, AddrB, AddrBad}
BounceTables ==
    { [k \in TableKeys |-> IF k = AddrA THEN items ELSE <<>>] : items \in ItemLists }

\* generateJobId: `bulk-${Date.now()}-${random}`; the ids two calls may get.
JobIds == {"bulk-1-a", "bulk-2-b"}

NoResult ==
    [jobId |-> "", totalRecipients |-> 0, successCount |-> 0, failureCount |-> 0,
     results |-> <<>>, status |-> "none"]

InitBulk ==
    /\ config \in {BulkEmailConfig(c) : c \in CallerConfigs}
    /\ bounceTable \in
         IF bounceTracker THEN BounceTables ELSE {[k \in TableKeys |-> <<>>]}
    /\ pc = "idle"
    /\ path = "none"
    /\ \E input \in CallInputs :
          /\ from = input.from
          /\ emailContent = input.content
    /\ recipients = <<>>
    /\ options = [forceQueue |-> FALSE, scheduledFor |-> FALSE, chunkSize |-> 0]
    /\ bounceChecks = <<>>
    /\ lookupThrew = {}
    /\ activeRecipients = <<>>
    /\ idx = 1
    /\ results = <<>>
    /\ successCount = 0
    /\ failureCount = 0
    /\ inFlight = {}
    /\ sesCalls = <<>>
    /\ sesOutcomes = {}
    /\ sleeps = 0
    /\ timer = 0
    /\ bulkSends = <<>>
    /\ sqsSends = <<>>
    /\ ret = NoResult
    /\ sentContent = <<>>
    /\ jobId \in JobIds

\* An EmailService constructed without config.templates.
InitRegistry == templateRegistry = EmailServiceRegistry(NoTemplates)

\* The id of a call made at a given time with a given random number.
InitJobId == jobId = "bulk-1-a"

Init ==
    /\ InitBulk
    /\ InitRegistry
    /\ InitJobId
    /\ fn = "none"
    /\ arg = <<>>
    /\ out = FALSE

\* ----------------------------------------------------------------- helpers

EmailResult(success, error, recipient) ==
    [success |-> success, error |-> error, recipient |-> recipient]

ErrBounced == "Email address has previously bounced"
ErrTransport == "Failed to send email"
ErrQueue == "Failed to queue"
ErrRegExp == "Invalid regular expression"

StatusFailedFirst(failures, total) ==
    IF failures = total THEN "failed"
    ELSE IF failures = 0 THEN "completed"
    ELSE "partial"

\* status: failureCount === 0 ? 'completed'
\*         : failureCount === results.length ? 'failed' : 'partial'
Status(failures, total) ==
    IF failures = 0 THEN "completed"
    ELSE IF failures = total THEN "failed"
    ELSE "partial"

Min(a, b) == IF a < b THEN a ELSE b

\* chunkArray, from the 0-based loop index i on.
RECURSIVE chunkFrom(_, _, _)
chunkFrom(array, chunkSize, i) ==
    IF i < Len(array)
    THEN << SubSeq(array, i + 1, Min(i + chunkSize, Len(array))) >>
         \o chunkFrom(array, chunkSize, i + chunkSize)
    ELSE <<>>

chunkArrayDropsTail(array, chunkSize) ==
    LET Full(c) == Len(c) = chunkSize
    IN SelectSeq(chunkFrom(array, chunkSize, 0), Full)

chunkArray(array, chunkSize) == chunkFrom(array, chunkSize, 0)

Indices(seq) == [i \in 1..Len(seq) |-> i]

\* Whether the filter callback of processImmediately drops index i.
Suppressed(checks, i) == checks[i].status = "fulfilled" /\ checks[i].value

\* job.recipients.filter(...): the indices the filter keeps, in order.
filterActive(checks) ==
    LET Keep(i) == ~Suppressed(checks, i) IN SelectSeq(Indices(checks), Keep)

\* The failed results the filter callback pushes, in order.
filterResults(rcpts, checks) ==
    LET Drop(i) == Suppressed(checks, i)
        dropped == SelectSeq(Indices(checks), Drop)
    IN [k \in 1..Len(dropped) |->
           EmailResult(FALSE, ErrBounced, rcpts[dropped[k]].email)]

filterFailureCountForgotten(checks) == 0

\* failureCount++ in the filter callback, once per dropped recipient.
filterFailureCount(checks) ==
    Cardinality({i \in 1..Len(checks) : Suppressed(checks, i)})

sendEmailCatchReportsSuccess(error, to) == EmailResult(TRUE, "", to)

\* The catch block of SESEmailService.sendEmail: the error becomes a failed
\* result, it is not thrown on.
sendEmailCatch(error, to) == EmailResult(FALSE, error, to)

catchBlockDropsResult(rs, email) == rs

catchBlockPrepends(rs, email) == << EmailResult(FALSE, ErrRegExp, email) >> \o rs

\* The catch block of the loop of processImmediately: results.push(errorResult)
catchBlock(rs, email) == Append(rs, EmailResult(FALSE, ErrRegExp, email))

KeyRecipientEmail ==
    <<"r", "e", "c", "i", "p", "i", "e", "n", "t", "E", "m", "a", "i", "l">>
KeyRecipientName ==
    <<"r", "e", "c", "i", "p", "i", "e", "n", "t", "N", "a", "m", "e">>

\* Whether the object has the key.
HasKey(entries, key) == \E k \in 1..Len(entries) : entries[k][1] = key

\* { ...personalizedData, recipientEmail: email, recipientName: name }: a key
\* the spread object already has keeps its place in the enumeration order and
\* gets the new value, a new key comes last.
withRecipient(entries, email, name) ==
    [k \in 1..Len(entries) |->
        IF entries[k][1] = KeyRecipientEmail THEN << KeyRecipientEmail, email >>
        ELSE IF entries[k][1] = KeyRecipientName THEN << KeyRecipientName, name >>
        ELSE entries[k]]
    \o (IF HasKey(entries, KeyRecipientEmail) THEN <<>>
        ELSE << << KeyRecipientEmail, email >> >>)
    \o (IF HasKey(entries, KeyRecipientName) THEN <<>>
        ELSE << << KeyRecipientName, name >> >>)

\* The data map processImmediately personalizes with for recipient r, which
\* has no name.
spreadData(r) ==
    withRecipient([k \in 1..Len(r.personalizedData) |->
                      << r.personalizedData[k][1],
                         JsString(r.personalizedData[k][2]) >>],
                  JsString(r.email), JsUndefined)

CountSuccess(rs) == Cardinality({i \in 1..Len(rs) : rs[i].success})

BulkEmailResult(total, ok, failed, rs, status) ==
    [jobId |-> jobId, totalRecipients |-> total, successCount |-> ok,
     failureCount |-> failed, results |-> rs, status |-> status]

\* ----------------------------------------------------- BulkEmailService

PendingCheck == [status |-> "pending", value |-> FALSE]

\* processImmediately up to its first await.  With a bounce tracker every
\* lookup is started; Promise.allSettled of an empty list settles at once.
processImmediately(rcpts) ==
    /\ path' = "immediate"
    /\ results' = <<>>
    /\ successCount' = 0
    /\ failureCount' = 0
    /\ idx' = 1
    /\ lookupThrew' = {}
    /\ IF bounceTracker /\ Len(rcpts) > 0
       THEN /\ bounceChecks' = [i \in 1..Len(rcpts) |-> PendingCheck]
            /\ activeRecipients' = <<>>
            /\ pc' = "bounceChecks"
       ELSE /\ bounceChecks' = <<>>
            /\ activeRecipients' = Indices(rcpts)
            /\ pc' = "loop"
    /\ UNCHANGED << inFlight, sesCalls, sentContent, sesOutcomes, sleeps, timer, bulkSends,
                    sqsSends, ret >>

queuedResultCountsSuccess(rcpts) ==
    BulkEmailResult(Len(rcpts), Len(rcpts), 0, <<>>, "completed")

queuedResultListsRecipients(rcpts) ==
    BulkEmailResult(Len(rcpts), 0, 0,
                    [k \in 1..Len(rcpts) |-> EmailResult(TRUE, "", rcpts[k].email)],
                    "completed")

\* What queueBulkEmailJob returns when Promise.all resolved.
queuedResult(rcpts) == BulkEmailResult(Len(rcpts), 0, 0, <<>>, "completed")

queueFailedResultEmpty(rcpts) ==
    BulkEmailResult(Len(rcpts), 0, Len(rcpts), <<>>, "failed")

\* What the catch block of queueBulkEmailJob returns: every recipient of the
\* job failed with the error that was caught.
queueFailedResult(rcpts) ==
    BulkEmailResult(Len(rcpts), 0, Len(rcpts),
                    [k \in 1..Len(rcpts) |-> EmailResult(FALSE, ErrQueue, rcpts[k].email)],
                    "failed")

\* job.options.chunkSize || this.config.defaultChunkSize
chunkSizeOf(opts) ==
    IF opts.chunkSize # 0 THEN opts.chunkSize ELSE config.defaultChunkSize

chunkMessageCountsFromOne(chunks, index) ==
    [jobId |-> jobId, chunkIndex |-> index + 1, totalChunks |-> Len(chunks),
     recipients |-> chunks[index + 1], status |-> "pending"]

\* The message of the chunk at the 0-based index, as handed to SQS.
chunkMessage(chunks, index) ==
    [jobId |-> jobId, chunkIndex |-> index, totalChunks |-> Len(chunks),
     recipients |-> chunks[index + 1], status |-> "pending"]

\* queueBulkEmailJob from the chunks on, up to its await: every chunk message
\* is handed to SQS.  Promise.all of an empty list resolves at once and the
\* call returns.
submitChunks(rcpts, chunks) ==
    /\ path' = "queue"
    /\ sqsSends' = [c \in 1..Len(chunks) |-> chunkMessage(chunks, c - 1)]
    /\ IF Len(chunks) = 0
       THEN /\ pc' = "done"
            /\ ret' = queuedResult(rcpts)
       ELSE /\ pc' = "queueing"
            /\ ret' = ret
    /\ UNCHANGED << bounceChecks, lookupThrew, activeRecipients, idx,
                    results, successCount, failureCount, inFlight,
                    sesCalls, sentContent, sesOutcomes, sleeps, timer, bulkSends >>

\* queueBulkEmailJob: the recipients are chunked and the chunks submitted.
queueBulkEmailJob(rcpts, opts) ==
    submitChunks(rcpts, chunkArray(rcpts, chunkSizeOf(opts)))

shouldQueueAtThreshold(totalRecipients, opts) ==
    \/ opts.forceQueue
    \/ (sqsClient /\ totalRecipients >= config.maxImmediateBatchSize)
    \/ opts.scheduledFor

\* shouldQueue = forceQueue || (sqsClient && total > max) || scheduledFor
shouldQueue(totalRecipients, opts) ==
    \/ opts.forceQueue
    \/ (sqsClient /\ totalRecipients > config.maxImmediateBatchSize)
    \/ opts.scheduledFor

\* sendBulkEmails: the choice between the queue and immediate processing.
sendBulkEmails(rcpts, opts) ==
    /\ recipients' = rcpts
    /\ options' = opts
    /\ IF shouldQueue(Len(rcpts), opts) /\ sqsClient
       THEN queueBulkEmailJob(rcpts, opts)
       ELSE processImmediately(rcpts)

CallOptions ==
    [forceQueue : BOOLEAN, scheduledFor : BOOLEAN, chunkSize : {0, 2}]

\* A caller invokes BulkEmailService.sendBulkEmails.
CallSendBulkEmails ==
    /\ pc = "idle"
    /\ \E rcpts \in SeqsUpTo(RecipientUniverse, MaxRecipients), opts \in CallOptions :
          sendBulkEmails(rcpts, opts)
    /\ UNCHANGED << config, bounceTable, emailContent, from >>

\* One bounce lookup settles.  hasEmailBounced catches a failed query, so the
\* promise always fulfils.  When it was the last one, Promise.allSettled
\* resolves and the filter runs.
BounceCheckSettles ==
    /\ pc = "bounceChecks"
    /\ \E i \in 1..Len(bounceChecks), threw \in BOOLEAN :
          /\ bounceChecks[i].status = "pending"
          /\ LET items == QueryLatest(bounceTable[toLowerCase(recipients[i].email)])
                 checks == [bounceChecks EXCEPT ![i] =
                               [status |-> "fulfilled",
                                value |-> hasEmailBounced(threw, items)]]
                 allSettled == \A j \in 1..Len(checks) : checks[j].status # "pending"
             IN /\ bounceChecks' = checks
                /\ lookupThrew' = IF threw THEN lookupThrew \cup {i} ELSE lookupThrew
                /\ IF allSettled
                   THEN /\ activeRecipients' = filterActive(checks)
                        /\ results' = filterResults(recipients, checks)
                        /\ failureCount' = filterFailureCount(checks)
                        /\ pc' = "loop"
                   ELSE UNCHANGED << activeRecipients, results, failureCount, pc >>
    /\ UNCHANGED << config, bounceTable, emailContent, path, from, recipients, options, idx,
                    successCount, inFlight, sesCalls, sentContent, sesOutcomes, sleeps,
                    timer, bulkSends, sqsSends, ret >>

sleepNotAwaited == [pc |-> "loop", idx |-> idx + 1]

\* await this.sleep(50): the loop is suspended at the current recipient until
\* the timer fires.
awaitSleep == [pc |-> "sleep", idx |-> idx]

sleepAfterSuccessOnly(success) ==
    IF success
    THEN [pc |-> "sleep", idx |-> idx, timer |-> SleepMs, sleeps |-> sleeps + 1]
    ELSE [pc |-> "loop", idx |-> idx + 1, timer |-> 0, sleeps |-> sleeps]

\* What follows the result of sesService.sendEmail, successful or not: the
\* result is pushed and counted, then sleep(50) is awaited.
sleepAfterSend(success) ==
    [pc |-> awaitSleep.pc, idx |-> awaitSleep.idx, timer |-> SleepMs,
     sleeps |-> sleeps + 1]

jobEmailContentOverwritten(base, personalizedContent) == personalizedContent

\* job.emailContent after an iteration: the personalized content is held in
\* a local variable and in new strings, the job's content is not assigned.
jobEmailContent(base, personalizedContent) == base

\* The body of the for loop up to its await, for the recipient at idx; after
\* the last recipient the call returns.
\*  - personalizeContent throws: the catch block records the failure and the
\*    loop goes on, without a sleep;
\*  - otherwise sesService.sendEmail is called: it fails validation at once,
\*    or hands the message to SES and waits.
LoopStep ==
    /\ pc = "loop"
    /\ idx <= Len(activeRecipients)
    /\ LET i == activeRecipients[idx]
           recipient == recipients[i]
           personalized ==
               IF recipient.hasData
               THEN personalizeContent(emailContent, spreadData(recipient))
               ELSE Return(emailContent)
       IN IF personalized.threw
          THEN /\ results' = catchBlock(results, recipient.email)
               /\ failureCount' = failureCount + 1
               /\ idx' = idx + 1
               /\ UNCHANGED << pc, inFlight, sesCalls, sentContent, sesOutcomes,
                               sleeps, timer, emailContent >>
          ELSE /\ sesCalls' = Append(sesCalls, i)
               /\ sentContent' = Append(sentContent, personalized.value)
               /\ emailContent' = jobEmailContent(emailContent, personalized.value)
               /\ LET v == validateMessage(from, recipient.email, personalized.value)
                  IN IF v # "ok"
                     THEN /\ results' = Append(results, sendEmailCatch(v, recipient.email))
                          /\ failureCount' = failureCount + 1
                          /\ sesOutcomes' = sesOutcomes \cup {<<i, "invalid">>}
                          /\ sleeps' = sleepAfterSend(FALSE).sleeps
                          /\ timer' = sleepAfterSend(FALSE).timer
                          /\ pc' = sleepAfterSend(FALSE).pc
                          /\ idx' = sleepAfterSend(FALSE).idx
                          /\ UNCHANGED inFlight
                     ELSE /\ inFlight' = inFlight \cup {i}
                          /\ pc' = "send"
                          /\ UNCHANGED << results, failureCount, sesOutcomes,
                                          sleeps, timer, idx >>
    /\ UNCHANGED << config, bounceTable, path, from, recipients, options,
                    bounceChecks, lookupThrew, activeRecipients, successCount,
                    bulkSends, sqsSends, ret >>

\* SES answers the pending SendEmail request: sendEmail returns a result, it
\* is pushed and counted, and sleep(50) starts.
SesSettles ==
    /\ pc = "send"
    /\ \E ok \in BOOLEAN :
          LET i == activeRecipients[idx]
              result == IF ok THEN EmailResult(TRUE, "", recipients[i].email)
                        ELSE sendEmailCatch(ErrTransport, recipients[i].email)
          IN /\ inFlight' = inFlight \ {i}
             /\ sesOutcomes' = sesOutcomes \cup {<<i, IF ok THEN "ok" ELSE "rejected">>}
             /\ results' = Append(results, result)
             /\ successCount' = IF result.success THEN successCount + 1 ELSE successCount
             /\ failureCount' = IF result.success THEN failureCount ELSE failureCount + 1
             /\ sleeps' = sleepAfterSend(ok).sleeps
             /\ timer' = sleepAfterSend(ok).timer
             /\ pc' = sleepAfterSend(ok).pc
             /\ idx' = sleepAfterSend(ok).idx
    /\ UNCHANGED << config, bounceTable, emailContent, path, from, recipients, options,
                    bounceChecks, lookupThrew, activeRecipients, sesCalls, sentContent,
                    bulkSends, sqsSends, ret >>

\* The sleep(50) timer fires: the loop moves to the next recipient.
SleepDone ==
    /\ pc = "sleep"
    /\ timer = SleepMs
    /\ timer' = 0
    /\ idx' = idx + 1
    /\ pc' = "loop"
    /\ UNCHANGED << config, bounceTable, emailContent, path, from, recipients, options,
                    bounceChecks, lookupThrew, activeRecipients, results,
                    successCount, failureCount, inFlight, sesCalls, sentContent, sesOutcomes,
                    sleeps, bulkSends, sqsSends, ret >>

\* The loop is over: processImmediately returns the job's result.
ReturnImmediate ==
    /\ pc = "loop"
    /\ idx > Len(activeRecipients)
    /\ ret' = BulkEmailResult(Len(recipients), successCount, failureCount, results,
                              Status(failureCount, Len(results)))
    /\ pc' = "done"
    /\ UNCHANGED << config, bounceTable, emailContent, path, from, recipients, options,
                    bounceChecks, lookupThrew, activeRecipients, idx, results,
                    successCount, failureCount, inFlight, sesCalls, sentContent, sesOutcomes,
                    sleeps, timer, bulkSends, sqsSends >>

\* SQS answers one chunk's SendMessage.  While the call still waits on
\* Promise.all: the first rejection makes it return the all-failed result,
\* the last fulfilment makes it return the enqueued result.  An answer that
\* arrives after the call returned changes nothing but the message's status.
SqsSettles ==
    /\ pc \in {"queueing", "done"}
    /\ path = "queue"
    /\ \E c \in 1..Len(sqsSends), ok \in BOOLEAN :
          /\ sqsSends[c].status = "pending"
          /\ LET sends == [sqsSends EXCEPT ![c].status = IF ok THEN "ok" ELSE "failed"]
                 allOk == \A k \in 1..Len(sends) : sends[k].status = "ok"
             IN /\ sqsSends' = sends
                /\ IF pc = "queueing" /\ ~ok
                   THEN /\ ret' = queueFailedResult(recipients)
                        /\ pc' = "done"
                   ELSE IF pc = "queueing" /\ allOk
                   THEN /\ ret' = queuedResult(recipients)
                        /\ pc' = "done"
                   ELSE UNCHANGED << ret, pc >>
    /\ UNCHANGED << config, bounceTable, emailContent, path, from, recipients, options,
                    bounceChecks, lookupThrew, activeRecipients, idx, results,
                    successCount, failureCount, inFlight, sesCalls, sentContent, sesOutcomes,
                    sleeps, timer, bulkSends >>

\* ------------------------------------------------------------ EmailService

\* SESEmailService.sendBulkEmail up to its await: sendEmail is called for
\* every recipient; a message that fails validateMessage settles at once, the
\* others are handed to SES and are pending together.
sesSendBulkEmail(rcpts) ==
    LET Validation(i) == validateMessage(from, rcpts[i].email, emailContent) IN
    /\ path' = "fallback"
    /\ sesCalls' = Indices(rcpts)
    /\ sentContent' = [i \in 1..Len(rcpts) |-> emailContent]
    /\ bulkSends' = [i \in 1..Len(rcpts) |->
                        IF Validation(i) = "ok"
                        THEN [status |-> "pending",
                              value |-> EmailResult(FALSE, "", rcpts[i].email)]
                        ELSE [status |-> "fulfilled",
                              value |-> sendEmailCatch(Validation(i), rcpts[i].email)]]
    /\ inFlight' = {i \in 1..Len(rcpts) : Validation(i) = "ok"}
    /\ sesOutcomes' = {<<i, "invalid">> : i \in {j \in 1..Len(rcpts) : Validation(j) # "ok"}}
    /\ pc' = "fallback"
    /\ UNCHANGED << bounceChecks, lookupThrew, activeRecipients, idx, results,
                    successCount, failureCount, sleeps, timer, sqsSends, ret >>

\* A caller invokes EmailService.sendBulkEmail with plain addresses: the bulk
\* service takes the call when it exists, otherwise the SES service sends
\* directly.
CallSendBulkEmail ==
    /\ pc = "idle"
    /\ \E addrs \in SeqsUpTo(AddressUniverse, MaxRecipients), queue \in BOOLEAN :
          LET bulkRecipients == [i \in 1..Len(addrs) |-> Rcpt(addrs[i], FALSE, <<>>)]
              opts == [forceQueue |-> queue, scheduledFor |-> FALSE, chunkSize |-> 0]
          IN IF bulkEmailService
             THEN sendBulkEmails(bulkRecipients, opts)
             ELSE /\ recipients' = bulkRecipients
                  /\ options' = opts
                  /\ sesSendBulkEmail(bulkRecipients)
    /\ UNCHANGED << config, bounceTable, emailContent, from >>

\* SES answers one of the pending requests of the direct bulk send.
BulkSendSettles ==
    /\ pc = "fallback"
    /\ \E i \in inFlight, ok \in BOOLEAN :
          /\ bulkSends' = [bulkSends EXCEPT ![i] =
                [status |-> "fulfilled",
                 value |-> IF ok THEN EmailResult(TRUE, "", recipients[i].email)
                           ELSE sendEmailCatch(ErrTransport, recipients[i].email)]]
          /\ inFlight' = inFlight \ {i}
          /\ sesOutcomes' = sesOutcomes \cup {<<i, IF ok THEN "ok" ELSE "rejected">>}
    /\ UNCHANGED << config, bounceTable, emailContent, pc, path, from, recipients, options,
                    bounceChecks, lookupThrew, activeRecipients, idx, results,
                    successCount, failureCount, sesCalls, sentContent, sleeps, timer,
                    sqsSends, ret >>

\* Every request of the direct bulk send has settled: sendBulkEmail counts
\* the results and returns.
ReturnFallback ==
    /\ pc = "fallback"
    /\ \A i \in 1..Len(bulkSends) : bulkSends[i].status = "fulfilled"
    /\ LET rs == [i \in 1..Len(bulkSends) |-> bulkSends[i].value]
           ok == CountSuccess(rs)
           failed == Len(rs) - ok
       IN /\ results' = rs
          /\ successCount' = ok
          /\ failureCount' = failed
          /\ ret' = BulkEmailResult(Len(recipients), ok, failed, rs,
                                    Status(failed, Len(rs)))
    /\ pc' = "done"
    /\ UNCHANGED << config, bounceTable, emailContent, path, from, recipients, options,
                    bounceChecks, lookupThrew, activeRecipients, idx, inFlight,
                    sesCalls, sentContent, sesOutcomes, sleeps, timer, bulkSends, sqsSends >>

\* ------------------------------------------------------------ specification

Next ==
    \/ CallSendBulkEmails /\ UNCHANGED << pureVars, registryVars, jobId >>
    \/ CallSendBulkEmail /\ UNCHANGED << pureVars, registryVars, jobId >>
    \/ BounceCheckSettles /\ UNCHANGED << pureVars, registryVars, jobId >>
    \/ LoopStep /\ UNCHANGED << pureVars, registryVars, jobId >>
    \/ SesSettles /\ UNCHANGED << pureVars, registryVars, jobId >>
    \/ SleepDone /\ UNCHANGED << pureVars, registryVars, jobId >>
    \/ ReturnImmediate /\ UNCHANGED << pureVars, registryVars, jobId >>
    \/ SqsSettles /\ UNCHANGED << pureVars, registryVars, jobId >>
    \/ BulkSendSettles /\ UNCHANGED << pureVars, registryVars, jobId >>
    \/ ReturnFallback /\ UNCHANGED << pureVars, registryVars, jobId >>

\* One bulk call, from its invocation to its return.
Spec == Init /\ [][Next]_vars

\* ------------------------------------------------- hasEmailBounced alone

\* Longest item history of one address.
MaxItems == 2

BounceTypes == {"hard", "soft", "complaint", "other"}
Ages == { 0 - MsPerHour, SoftBounceHours * MsPerHour - 1,
          SoftBounceHours * MsPerHour, SoftBounceHours * MsPerHour + 1 }

\* The items of one address in the table, most recent first: the sort key is
\* the timestamp, so ages strictly increase along the list.
ItemHistories ==
    { h \in SeqsUpTo({Item(t, a) : t \in BounceTypes, a \in Ages}, MaxItems) :
        \A k \in 1..(Len(h) - 1) : h[k].ageMs < h[k + 1].ageMs }

\* tableName: whether BOUNCE_TABLE_NAME is set in the lambda's environment;
\* threw: whether the query fails.
BounceInputs == [tableName : BOOLEAN, threw : BOOLEAN, items : ItemHistories]

\* hasEmailBounced of lambda/bulk-processor.ts on the outcome of its query.
lambdaHasEmailBounced(tableName, threw, items) ==
    IF ~tableName THEN FALSE
    ELSE IF threw THEN FALSE
    ELSE IF Len(items) > 0
         THEN LET latestBounce == items[1] IN
              IF latestBounce.bounceType \in {"hard", "complaint"} THEN TRUE
              ELSE IF latestBounce.bounceType = "soft"
                   THEN latestBounce.ageMs < SoftBounceHours * MsPerHour
                   ELSE FALSE
         ELSE FALSE

InitBounce ==
    /\ InitBulk
    /\ InitRegistry
    /\ InitJobId
    /\ from = AddrFrom
    /\ emailContent = BaseContent
    /\ ~config.bulkQueueUrl
    /\ ~config.bounceTableName
    /\ config.maxImmediateBatchSize = DefaultMaxImmediateBatchSize
    /\ fn = "none"
    /\ arg \in BounceInputs
    /\ out = FALSE

\* BounceTracker.hasEmailBounced is applied (the tracker exists only with a
\* table name).
TrackerLookup ==
    /\ fn = "none"
    /\ arg.tableName
    /\ fn' = "BounceTracker.hasEmailBounced"
    /\ out' = hasEmailBounced(arg.threw, QueryLatest(arg.items))
    /\ UNCHANGED << arg, bulkVars, registryVars >>

\* The bulk processor lambda's hasEmailBounced is applied.
LambdaLookup ==
    /\ fn = "none"
    /\ fn' = "lambda.hasEmailBounced"
    /\ out' = lambdaHasEmailBounced(arg.tableName, arg.threw, QueryLatest(arg.items))
    /\ UNCHANGED << arg, bulkVars, registryVars >>

NextBounce == TrackerLookup \/ LambdaLookup

SpecBounce == InitBounce /\ [][NextBounce]_vars

\* --------------------------------------------------------- chunkArray alone

\* A service on which no bulk call is made.
InitIdle ==
    /\ InitBulk
    /\ InitJobId
    /\ from = AddrFrom
    /\ emailContent = BaseContent
    /\ ~config.bulkQueueUrl
    /\ ~config.bounceTableName
    /\ config.maxImmediateBatchSize = DefaultMaxImmediateBatchSize
    /\ fn = "none"

\* Longest array and largest chunk size chunkArray is applied to.
MaxArrayLen == 4
MaxChunkSize == 3

ChunkInputs ==
    [array : SeqsUpTo(RecipientUniverse, MaxArrayLen), chunkSize : 1..MaxChunkSize]

InitChunk ==
    /\ InitIdle
    /\ InitRegistry
    /\ arg \in ChunkInputs
    /\ out = <<>>

ApplyChunkArray ==
    /\ fn = "none"
    /\ fn' = "chunkArray"
    /\ out' = chunkArray(arg.array, arg.chunkSize)
    /\ UNCHANGED << arg, bulkVars, registryVars >>

NextChunk == ApplyChunkArray

SpecChunk == InitChunk /\ [][NextChunk]_vars

\* -------------------------------------------------- personalizeContent alone

\* Most entries of a data map.
MaxDataKeys == 2

KeyOther == <<"m">>
KeyDot == <<".">>
DataKeys == {KeyName, KeyOther, KeyDot, KeyParen, KeyRecipientEmail}
DataValues ==
    {JsString(<<"B">>), JsString(<<>>), JsString(<<"$", "&">>),
     JsString(PatternOf(KeyOther)), JsUndefined, JsNull, JsZero, JsSeven, JsFalse}

\* Data maps as Object.entries lists them: no key twice.
DataMaps ==
    { d \in SeqsUpTo(DataKeys \X DataValues, MaxDataKeys) :
        \A i, j \in 1..Len(d) : i # j => d[i][1] # d[j][1] }

\* Contents with no token, one token, a repeated token, two tokens and the
\* token of the recipient's address.
TokenN == PatternOf(KeyName)
TokenM == PatternOf(KeyOther)
TokenRecipientEmail == PatternOf(KeyRecipientEmail)
Contents ==
    { [subject |-> TokenN, html |-> <<"a">> \o TokenN \o <<"b">> \o TokenN,
       text |-> <<"T">>],
      [subject |-> <<"S">>, html |-> TokenM \o TokenN, text |-> TokenM],
      [subject |-> <<>>, html |-> <<"{", "{", "n", "}">>, text |-> TokenN],
      [subject |-> TokenRecipientEmail, html |-> TokenN \o TokenRecipientEmail,
       text |-> <<>>] }

PersonalizeInputs == [content : Contents, data : DataMaps]

InitPersonalize ==
    /\ InitIdle
    /\ InitRegistry
    /\ arg \in PersonalizeInputs
    /\ out = <<>>

ApplyPersonalizeContent ==
    /\ fn = "none"
    /\ fn' = "personalizeContent"
    /\ out' = personalizeContent(arg.content, arg.data)
    /\ UNCHANGED << arg, bulkVars, registryVars >>

ApplyLambdaPersonalizeContent ==
    /\ fn = "none"
    /\ fn' = "lambda.personalizeContent"
    /\ out' = lambdaPersonalizeContent(arg.content.html, arg.data)
    /\ UNCHANGED << arg, bulkVars, registryVars >>

\* processImmediately personalizes for a recipient whose personalizedData is
\* the data map: its address and its (missing) name are written over the map.
ApplyPersonalizeForRecipient ==
    /\ fn = "none"
    /\ fn' = "processImmediately.personalizeContent"
    /\ out' = personalizeContent(arg.content,
                                 withRecipient(arg.data, JsString(AddrA), JsUndefined))
    /\ UNCHANGED << arg, bulkVars, registryVars >>

NextPersonalize ==
    \/ ApplyPersonalizeContent
    \/ ApplyLambdaPersonalizeContent
    \/ ApplyPersonalizeForRecipient

SpecPersonalize == InitPersonalize /\ [][NextPersonalize]_vars

\* ------------------------------------------------------- DelaySeconds alone

\* Instants are milliseconds since the epoch, here multiples of 250 ms up to
\* MaxInstant quarter seconds.
MaxInstant == 10
Instants == {250 * k : k \in 0..MaxInstant}

\* Math.max(0, x) and Math.floor(x / 1000) on integers.
MathMax(a, b) == IF a > b THEN a ELSE b
FloorSeconds(ms) == ms \div 1000

DelaySecondsUnclamped(scheduled, scheduledFor, now) ==
    IF scheduled THEN FloorSeconds(scheduledFor - now) ELSE 0

\* DelaySeconds of a chunk's SendMessageCommand: `scheduled` tells whether
\* job.options.scheduledFor is set, scheduledFor is its getTime() and now is
\* Date.now() when the command is built.
DelaySeconds(scheduled, scheduledFor, now) ==
    IF scheduled THEN MathMax(0, FloorSeconds(scheduledFor - now)) ELSE 0

\* A scheduledFor that is absent has no time.
DelayInputs ==
    { a \in [scheduled : BOOLEAN, scheduledFor : Instants, now : Instants] :
        ~a.scheduled => a.scheduledFor = 0 }

InitDelay ==
    /\ InitIdle
    /\ InitRegistry
    /\ arg \in DelayInputs
    /\ out = 0

ApplyDelaySeconds ==
    /\ fn = "none"
    /\ fn' = "DelaySeconds"
    /\ out' = DelaySeconds(arg.scheduled, arg.scheduledFor, arg.now)
    /\ UNCHANGED << arg, bulkVars, registryVars >>

NextDelay == ApplyDelaySeconds

SpecDelay == InitDelay /\ [][NextDelay]_vars

\* ------------------------------------------------- the template registry

\* Most renderers registerTemplate and registerFromDefinition let the
\* registry hold.
MaxRegistered == 2

RECURSIVE SumLen(_, _)
SumLen(templates, types) ==
    IF types = {} THEN 0
    ELSE LET t == CHOOSE u \in types : TRUE
         IN Len(templates[t]) + SumLen(templates, types \ {t})

Registered(registry) == SumLen(registry.templates, DOMAIN registry.templates)

\* The templates a caller passes to setTemplates or as config.templates: a
\* full collection, a type without locales, a type that is undefined next to
\* a new type.
CustomCollections ==
    { PartialCollection(
          [type \in {"invite", "resetPassword"} |->
              << <<"en", MustacheTemplateRenderer("D1", "en")>>,
                 <<"es", MustacheTemplateRenderer("D1", "es")>> >>], {}),
      PartialCollection([type \in {"invite"} |-> <<>>], {}),
      PartialCollection(
          [type \in {"welcome"} |-> << <<"fr", MustacheTemplateRenderer("D2", "fr")>> >>],
          {"invite"}) }

\* How template.render(data, locale) ends: with the content made from the
\* renderer's definition, or with an error of Mustache.
RenderOutcomes(template) ==
    { Return(<< "rendered", template.definition, template.locale >>),
      Throw(<< "render failed" >>) }

\* The arguments of a query: the locale may be left out.
QueryArgs == [type : TemplateTypes, locale : Locales \cup {NoLocale}]

InitTemplates ==
    /\ InitIdle
    /\ arg \in {NoTemplates} \cup CustomCollections
    /\ templateRegistry = EmailServiceRegistry(arg)
    /\ out = Undefined

RegisterTemplate ==
    /\ \E type \in TemplateTypes, locale \in Locales, definition \in Definitions :
          LET renderer == MustacheTemplateRenderer(definition, locale) IN
          /\ templateRegistry' = registerTemplate(templateRegistry, type, locale, renderer)
          /\ Registered(templateRegistry') <= MaxRegistered
          /\ fn' = "registerTemplate"
          /\ arg' = [type |-> type, locale |-> locale, renderer |-> renderer]
    /\ out' = Undefined
    /\ UNCHANGED bulkVars

RegisterFromDefinition ==
    /\ \E type \in TemplateTypes, locale \in Locales, definition \in Definitions :
          /\ templateRegistry' =
                 registerFromDefinition(templateRegistry, type, locale, definition)
          /\ Registered(templateRegistry') <= MaxRegistered
          /\ fn' = "registerFromDefinition"
          /\ arg' = [type |-> type, locale |-> locale, definition |-> definition]
    /\ out' = Undefined
    /\ UNCHANGED bulkVars

SetTemplates ==
    /\ \E collection \in CustomCollections :
          /\ templateRegistry' = setTemplates(templateRegistry, collection)
          /\ arg' = collection
    /\ fn' = "setTemplates"
    /\ out' = Undefined
    /\ UNCHANGED bulkVars

Clear ==
    /\ templateRegistry' = clear(templateRegistry)
    /\ fn' = "clear"
    /\ arg' = <<>>
    /\ out' = Undefined
    /\ UNCHANGED bulkVars

GetTemplate ==
    /\ \E query \in QueryArgs :
          /\ arg' = query
          /\ out' = getTemplate(templateRegistry, query.type, query.locale)
    /\ fn' = "getTemplate"
    /\ UNCHANGED << bulkVars, registryVars >>

HasTemplate ==
    /\ \E query \in QueryArgs :
          /\ arg' = query
          /\ out' = hasTemplate(templateRegistry, query.type, query.locale)
    /\ fn' = "hasTemplate"
    /\ UNCHANGED << bulkVars, registryVars >>

RenderTemplate ==
    /\ \E query \in QueryArgs :
          \E rendered \in RenderOutcomes(
                 IF hasTemplate(templateRegistry, query.type, query.locale)
                 THEN getTemplate(templateRegistry, query.type, query.locale)
                 ELSE MustacheTemplateRenderer("none", "none")) :
              /\ arg' = query
              /\ out' = renderTemplate(templateRegistry, query.type, query.locale,
                                       rendered)
    /\ fn' = "renderTemplate"
    /\ UNCHANGED << bulkVars, registryVars >>

NextTemplates ==
    \/ RegisterTemplate
    \/ RegisterFromDefinition
    \/ SetTemplates
    \/ Clear
    \/ GetTemplate
    \/ HasTemplate
    \/ RenderTemplate

SpecTemplates == InitTemplates /\ [][NextTemplates]_vars

\* -------------------------------------------------- the estimate alone

\* Largest recipient count an estimate is asked for.
MaxRecipientCount == 55

EmailsPerMinute == 50

\* Math.ceil(n / d) for an integer n and d > 0.
MathCeil(n, d) == 0 - ((0 - n) \div d)

Estimate(minutes, batches, strategy) ==
    [estimatedMinutes |-> minutes, estimatedBatches |-> batches,
     recommendedStrategy |-> strategy]

estimateSendingTimeAtThreshold(recipientCount) ==
    LET batchSize == config.maxImmediateBatchSize
    IN Estimate(MathCeil(recipientCount, EmailsPerMinute),
                MathCeil(recipientCount, batchSize),
                IF recipientCount >= batchSize THEN "queue" ELSE "immediate")

\* BulkEmailService.estimateSendingTime
estimateSendingTime(recipientCount) ==
    LET batchSize == config.maxImmediateBatchSize
    IN Estimate(MathCeil(recipientCount, EmailsPerMinute),
                MathCeil(recipientCount, batchSize),
                IF recipientCount > batchSize THEN "queue" ELSE "immediate")

\* EmailService.estimateBulkSendingTime: the bulk service's estimate when it
\* exists, otherwise the basic estimation.
estimateBulkSendingTime(recipientCount) ==
    IF bulkEmailService THEN estimateSendingTime(recipientCount)
    ELSE Estimate(MathCeil(recipientCount, EmailsPerMinute),
                  MathCeil(recipientCount, 50),
                  IF recipientCount > 50 THEN "queue" ELSE "immediate")

\* An EmailServiceConfig has no field for the batch size or the chunk size:
\* the bulk service of an EmailService has the defaults.
IsEmailServiceConfig ==
    /\ config.maxImmediateBatchSize = DefaultMaxImmediateBatchSize
    /\ config.defaultChunkSize = DefaultChunkSize

InitEstimate ==
    /\ InitBulk
    /\ InitRegistry
    /\ InitJobId
    /\ from = AddrFrom
    /\ emailContent = BaseContent
    /\ ~config.bounceTableName
    /\ fn = "none"
    /\ arg \in 0..MaxRecipientCount
    /\ out = <<>>

ApplyEstimateSendingTime ==
    /\ fn = "none"
    /\ fn' = "estimateSendingTime"
    /\ out' = estimateSendingTime(arg)
    /\ UNCHANGED << arg, bulkVars, registryVars >>

ApplyEstimateBulkSendingTime ==
    /\ fn = "none"
    /\ IsEmailServiceConfig
    /\ fn' = "estimateBulkSendingTime"
    /\ out' = estimateBulkSendingTime(arg)
    /\ UNCHANGED << arg, bulkVars, registryVars >>

NextEstimate == ApplyEstimateSendingTime \/ ApplyEstimateBulkSendingTime

SpecEstimate == InitEstimate /\ [][NextEstimate]_vars

\* ------------------------------------------- the queued call, step by step

\* Most chunks the process has memory for.
MaxChunksInMemory == MaxRecipients + 2

\* Array.prototype.slice(start, end): a negative index counts from the end,
\* both are clamped to 0..length.
SliceIndex(len, k) ==
    IF k < 0 THEN (IF len + k < 0 THEN 0 ELSE len + k)
    ELSE (IF k > len THEN len ELSE k)
slice(array, start, end) ==
    SubSeq(array, SliceIndex(Len(array), start) + 1, SliceIndex(Len(array), end))

\* The chunk sizes a caller passes: negative, 0 (or none), positive.
QueuedCallOptions ==
    [forceQueue : BOOLEAN, scheduledFor : {FALSE}, chunkSize : {0 - 1, 0, 1, 2}]

InitQueued ==
    /\ InitBulk
    /\ InitRegistry
    /\ from = AddrFrom
    /\ emailContent = BaseContent
    /\ fn = "none"
    /\ arg = <<>>
    /\ out = <<>>

\* A caller invokes sendBulkEmails.  On the queued route queueBulkEmailJob
\* calls chunkArray, whose loop starts with i = 0 and no chunk.
CallSendBulkEmailsQueued ==
    /\ pc = "idle"
    /\ \E rcpts \in SeqsUpTo(RecipientUniverse, MaxRecipients),
          opts \in QueuedCallOptions :
          /\ recipients' = rcpts
          /\ options' = opts
          /\ IF shouldQueue(Len(rcpts), opts) /\ sqsClient
             THEN /\ pc' = "chunking"
                  /\ path' = "queue"
                  /\ fn' = "chunkArray"
                  /\ arg' = [array |-> rcpts, chunkSize |-> chunkSizeOf(opts)]
                  /\ out' = [i |-> 0, chunks |-> <<>>]
                  /\ UNCHANGED << bounceChecks, lookupThrew, activeRecipients, idx,
                                  results, successCount, failureCount, inFlight,
                                  sesCalls, sentContent, sesOutcomes, sleeps, timer,
                                  bulkSends, sqsSends, ret >>
             ELSE /\ processImmediately(rcpts)
                  /\ UNCHANGED pureVars
    /\ UNCHANGED << config, bounceTable, emailContent, from, registryVars, jobId >>

\* One iteration of the loop of chunkArray:
\* chunks.push(array.slice(i, i + chunkSize)); i += chunkSize
ChunkArrayStep ==
    /\ pc = "chunking"
    /\ out.i < Len(arg.array)
    /\ Len(out.chunks) < MaxChunksInMemory
    /\ out' = [i |-> out.i + arg.chunkSize,
               chunks |-> Append(out.chunks,
                                 slice(arg.array, out.i, out.i + arg.chunkSize))]
    /\ UNCHANGED << fn, arg, bulkVars, registryVars >>

\* The loop went on until no further chunk can be allocated: the process is
\* aborted, the call neither returns nor throws.
HeapExhausted ==
    /\ pc = "chunking"
    /\ out.i < Len(arg.array)
    /\ Len(out.chunks) = MaxChunksInMemory
    /\ pc' = "aborted"
    /\ UNCHANGED << config, bounceTable, emailContent, path, from, recipients,
                    options, bounceChecks, lookupThrew, activeRecipients, idx,
                    results, successCount, failureCount, inFlight, sesCalls,
                    sentContent, sesOutcomes, sleeps, timer, bulkSends, sqsSends,
                    ret, jobId, pureVars, registryVars >>

\* The loop condition fails: chunkArray returns its chunks and
\* queueBulkEmailJob submits them.
ChunkArrayReturns ==
    /\ pc = "chunking"
    /\ ~(out.i < Len(arg.array))
    /\ submitChunks(recipients, out.chunks)
    /\ UNCHANGED << config, bounceTable, emailContent, from, recipients, options,
                    jobId, pureVars, registryVars >>

NextQueued ==
    \/ CallSendBulkEmailsQueued
    \/ ChunkArrayStep
    \/ HeapExhausted
    \/ ChunkArrayReturns
    \/ SqsSettles /\ UNCHANGED << pureVars, registryVars, jobId >>
    \/ BounceCheckSettles /\ UNCHANGED << pureVars, registryVars, jobId >>
    \/ LoopStep /\ UNCHANGED << pureVars, registryVars, jobId >>
    \/ SesSettles /\ UNCHANGED << pureVars, registryVars, jobId >>
    \/ SleepDone /\ UNCHANGED << pureVars, registryVars, jobId >>
    \/ ReturnImmediate /\ UNCHANGED << pureVars, registryVars, jobId >>

\* One call of BulkEmailService.sendBulkEmails with the loop of chunkArray
\* taken step by step.
SpecQueued == InitQueued /\ [][NextQueued]_vars

\* For the question whether the call ends: one job id, and a bounce table
\* that has nothing or a hard bounce for the first address.
InitQueuedFair ==
    /\ InitQueued
    /\ InitJobId
    /\ Len(bounceTable[AddrA]) > 0 => bounceTable[AddrA][1].bounceType = "hard"

\* The steps of a call that has been made.
CallRuns ==
    \/ ChunkArrayStep
    \/ HeapExhausted
    \/ ChunkArrayReturns
    \/ SqsSettles /\ UNCHANGED << pureVars, registryVars, jobId >>
    \/ BounceCheckSettles /\ UNCHANGED << pureVars, registryVars, jobId >>
    \/ LoopStep /\ UNCHANGED << pureVars, registryVars, jobId >>
    \/ SesSettles /\ UNCHANGED << pureVars, registryVars, jobId >>
    \/ SleepDone /\ UNCHANGED << pureVars, registryVars, jobId >>
    \/ ReturnImmediate /\ UNCHANGED << pureVars, registryVars, jobId >>

\* The call with every request to an external service settling, every timer
\* firing and the call's own code running on.
SpecQueuedFair == InitQueuedFair /\ [][NextQueued]_vars /\ WF_vars(CallRuns)

\* ------------------------------------------------- EmailService.sendEmail

\* message.to of a sendEmail call: one address or a list of them.
SendEmailRecipients ==
    SeqsUpTo({AddrA, AddrB, AddrAUpper}, MaxRecipients) \ { <<>> }

ErrBouncedPreviously == "Email address has bounced previously"

\* The result sendEmail returns for a bounced recipient.
bouncedPreviously(recipient) == EmailResult(FALSE, ErrBouncedPreviously, recipient)

afterBounceCheckSendsAnyway(hasBounced) == "next"

\* The body of the for loop of sendEmail: a bounced recipient makes the
\* function return, another one lets the loop go on.
afterBounceCheck(hasBounced) == IF hasBounced THEN "return" ELSE "next"

InitSendEmail ==
    /\ InitBulk
    /\ InitRegistry
    /\ InitJobId
    /\ from = AddrFrom
    /\ emailContent = BaseContent
    /\ fn = "none"
    /\ arg = <<>>
    /\ out = NoResult

\* this.sesService.sendEmail(message): the message, with all its recipients,
\* is handed to the SES service.
handToSesService(to) ==
    /\ sesCalls' = Append(sesCalls, to)
    /\ pc' = "send"

\* A caller invokes EmailService.sendEmail.  With a bounce tracker the first
\* lookup is started, without one the message goes to the SES service.
CallSendEmail ==
    /\ pc = "idle"
    /\ \E to \in SendEmailRecipients :
          /\ fn' = "sendEmail"
          /\ arg' = to
          /\ recipients' = [k \in 1..Len(to) |-> Rcpt(to[k], FALSE, <<>>)]
          /\ IF bounceTracker
             THEN /\ pc' = "hasEmailBounced"
                  /\ UNCHANGED sesCalls
             ELSE handToSesService(to)
    /\ path' = "sendEmail"
    /\ idx' = 1
    /\ UNCHANGED << config, bounceTable, emailContent, from, options, bounceChecks,
                    lookupThrew, activeRecipients, results, successCount,
                    failureCount, inFlight, sentContent, sesOutcomes, sleeps, timer,
                    bulkSends, sqsSends, ret, jobId, out, registryVars >>

\* The lookup of the recipient at idx settles.
SendEmailCheckSettles ==
    /\ pc = "hasEmailBounced"
    /\ \E threw \in BOOLEAN :
          LET recipient == recipients[idx].email
              items == QueryLatest(bounceTable[toLowerCase(recipient)])
              hasBounced == hasEmailBounced(threw, items)
          IN /\ bounceChecks' = Append(bounceChecks,
                                       [status |-> "fulfilled", value |-> hasBounced])
             /\ lookupThrew' = IF threw THEN lookupThrew \cup {idx} ELSE lookupThrew
             /\ IF afterBounceCheck(hasBounced) = "return"
                THEN /\ out' = bouncedPreviously(recipient)
                     /\ pc' = "done"
                     /\ UNCHANGED << idx, sesCalls >>
                ELSE /\ idx' = idx + 1
                     /\ out' = out
                     /\ IF idx = Len(recipients)
                        THEN handToSesService(arg)
                        ELSE UNCHANGED << pc, sesCalls >>
    /\ UNCHANGED << config, bounceTable, emailContent, path, from, recipients,
                    options, activeRecipients, results, successCount, failureCount,
                    inFlight, sentContent, sesOutcomes, sleeps, timer, bulkSends,
                    sqsSends, ret, jobId, fn, arg, registryVars >>

\* The SES service returns its result, which sendEmail returns.
SendEmailReturns ==
    /\ pc = "send"
    /\ \E ok \in BOOLEAN :
          out' = IF ok THEN EmailResult(TRUE, "", recipients[1].email)
                 ELSE sendEmailCatch(ErrTransport, recipients[1].email)
    /\ pc' = "done"
    /\ UNCHANGED << config, bounceTable, emailContent, path, from, recipients,
                    options, bounceChecks, lookupThrew, activeRecipients, idx,
                    results, successCount, failureCount, inFlight, sesCalls,
                    sentContent, sesOutcomes, sleeps, timer, bulkSends, sqsSends,
                    ret, jobId, fn, arg, registryVars >>

NextSendEmail ==
    \/ CallSendEmail
    \/ SendEmailCheckSettles
    \/ SendEmailReturns

SpecSendEmail == InitSendEmail /\ [][NextSendEmail]_vars

\* ------------------------------------- bounce handler and the lookups

\* Most records the handler stores.
MaxStored == 2

\* What a notification says: its notificationType and, for a bounce, its
\* bounceType.
NotificationKinds ==
    { <<"Bounce", "Permanent">>, <<"Bounce", "Transient">>,
      <<"Complaint", "">>, <<"Reject", "">> }

\* The type handleBounce, handleComplaint and handleReject store.
storedType(kind) ==
    CASE kind[1] = "Bounce" -> IF kind[2] = "Permanent" THEN "hard" ELSE "soft"
      [] kind[1] = "Complaint" -> "complaint"
      [] kind[1] = "Reject" -> "hard"

\* Addresses as notifications and callers write them.
HandlerAddresses == {AddrA, AddrAUpper, AddrB}

\* Ages, at the time of the lookups, of the timestamps of the notifications.
NotificationAges == { (SoftBounceHours \div 2) * MsPerHour,
                      (SoftBounceHours + 6) * MsPerHour }

\* storeBounceInfo: the item is put under info.email as it was received.  The
\* key is (email, timestamp): an item of the same key is replaced; the others
\* of the address stay, most recent first.
storeBounceInfo(table, email, type, ageMs) ==
    LET items == table[email]
        kept == IF Len(items) > 0 /\ items[1].ageMs = ageMs THEN Tail(items)
                ELSE items
    IN [table EXCEPT ![email] = << Item(type, ageMs) >> \o kept]

\* The number of items of the table.
Stored(table) == SumLen(table, TableKeys)

\* A service with a bounce table the handler has stored nothing in yet.
InitHandler ==
    /\ InitBulk
    /\ InitRegistry
    /\ InitJobId
    /\ from = AddrFrom
    /\ emailContent = BaseContent
    /\ ~config.bulkQueueUrl
    /\ config.bounceTableName
    /\ config.maxImmediateBatchSize = DefaultMaxImmediateBatchSize
    /\ config.defaultChunkSize = DefaultChunkSize
    /\ bounceTable = [k \in TableKeys |-> <<>>]
    /\ fn = "none"
    /\ arg = <<>>
    /\ out = FALSE

\* The handler processes a notification for one address: notifications come
\* in the order of their timestamps.
HandleNotification ==
    /\ Stored(bounceTable) < MaxStored
    /\ \E kind \in NotificationKinds, email \in HandlerAddresses,
          ageMs \in NotificationAges :
          /\ \A k \in TableKeys :
                bounceTable[k] # <<>> => ageMs <= bounceTable[k][1].ageMs
          /\ bounceTable' = storeBounceInfo(bounceTable, email, storedType(kind), ageMs)
          /\ fn' = "storeBounceInfo"
          /\ arg' = [email |-> email, kind |-> kind]
          /\ out' = FALSE
    /\ UNCHANGED << config, emailContent, pc, path, from, recipients, options,
                    bounceChecks, lookupThrew, activeRecipients, idx, results,
                    successCount, failureCount, inFlight, sesCalls, sentContent,
                    sesOutcomes, sleeps, timer, bulkSends, sqsSends, ret, jobId,
                    registryVars >>

\* BounceTracker.hasEmailBounced is asked about a recipient: the query is for
\* email.toLowerCase().
TrackerLooksUp ==
    /\ bounceTracker
    /\ \E email \in HandlerAddresses, threw \in BOOLEAN :
          /\ fn' = "BounceTracker.hasEmailBounced"
          /\ arg' = [email |-> email, threw |-> threw, tableName |-> TRUE]
          /\ out' = hasEmailBounced(threw, QueryLatest(bounceTable[toLowerCase(email)]))
    /\ UNCHANGED << bulkVars, registryVars >>

\* The bulk processor lambda's hasEmailBounced is asked about a recipient: the
\* query is for the email as it is.
LambdaLooksUp ==
    /\ \E email \in HandlerAddresses, threw \in BOOLEAN, tableName \in BOOLEAN :
          /\ fn' = "lambda.hasEmailBounced"
          /\ arg' = [email |-> email, threw |-> threw, tableName |-> tableName]
          /\ out' = lambdaHasEmailBounced(tableName, threw, QueryLatest(bounceTable[email]))
    /\ UNCHANGED << bulkVars, registryVars >>

NextHandler ==
    \/ HandleNotification
    \/ TrackerLooksUp
    \/ LambdaLooksUp

SpecHandler == InitHandler /\ [][NextHandler]_vars

\* ------------------------------------------------------------------ claims

Returned == pc = "done"

\* C1: every BulkEmailResult a bulk send returns (immediate path, queued path
\* on enqueue success and on enqueue failure, direct SES fallback) satisfies
\* successCount + failureCount = results.length.
C1_CountsAddUp ==
    Returned => ret.successCount + ret.failureCount = Len(ret.results)

\* C1 witness: an immediate job returned with a suppressed recipient and a
\* delivered one.
C1_Witness ==
    /\ Returned
    /\ path = "immediate"
    /\ ret.successCount = 1
    /\ \E k \in 1..Len(ret.results) : ret.results[k].error = ErrBounced

\* C2: in every returned BulkEmailResult the status is 'failed' iff every
\* result failed and there is at least one, 'completed' iff nothing failed,
\* and 'partial' otherwise; an empty recipient list gives 'completed'.
C2_StatusTriState ==
    Returned =>
        /\ ret.status \in {"completed", "partial", "failed"}
        /\ ret.status = "failed" <=>
              (ret.failureCount = Len(ret.results) /\ Len(ret.results) > 0)
        /\ ret.status = "completed" <=> ret.failureCount = 0
        /\ Len(recipients) = 0 => ret.status = "completed"

\* C2 witness: a returned job in which some sends failed and some did not.
C2_Witness ==
    /\ Returned
    /\ ret.status = "partial"
    /\ ret.failureCount > 0
    /\ ret.successCount > 0

\* C3: when the queue strategy is selected (forceQueue, or scheduledFor set)
\* but no queue transport is configured, the call fails with a configuration
\* error before any send attempt and never falls back to immediate
\* processing.
C3_QueueWithoutTransportFails ==
    (pc # "idle" /\ (options.forceQueue \/ options.scheduledFor) /\ ~sqsClient) =>
        /\ pc = "threw"
        /\ path # "immediate"
        /\ sesCalls = <<>>

\* C4: with a queue transport configured, the queue path is taken exactly
\* when forceQueue is true, or scheduledFor is set, or the recipient count
\* exceeds the threshold (50 unless configured); otherwise the immediate path
\* is taken, and a call takes exactly one of the two paths.
C4_StrategySelection ==
    (pc # "idle" /\ sqsClient) =>
        /\ path \in {"queue", "immediate"}
        /\ path = "queue" <=>
              \/ options.forceQueue
              \/ options.scheduledFor
              \/ Len(recipients) > config.maxImmediateBatchSize
        /\ \A c \in CallerConfigs :
              ~c.overridden => BulkEmailConfig(c).maxImmediateBatchSize = 50
        /\ path = "queue" => (sesCalls = <<>> /\ bounceChecks = <<>>)
        /\ path = "immediate" => sqsSends = <<>>

\* C4 witness: a call with exactly threshold-many recipients, not forced and
\* not scheduled, is processed immediately although a queue is configured.
C4_Witness ==
    /\ pc # "idle"
    /\ sqsClient
    /\ Len(recipients) = config.maxImmediateBatchSize
    /\ ~options.forceQueue
    /\ ~options.scheduledFor
    /\ path = "immediate"

\* The spec's rule on the item history of an address, most recent first.
SuppressionRule(items) ==
    /\ Len(items) > 0
    /\ \/ items[1].bounceType \in {"hard", "complaint"}
       \/ (items[1].bounceType = "soft" /\ items[1].ageMs < 24 * 3600000)

\* C5: a recipient is classified as suppressed iff the most recent bounce
\* record of its address is hard or complaint (whatever its age) or soft and
\* less than 24 hours old; no record, or a latest soft record 24 hours old or
\* older, does not suppress; older records are not consulted.
C5_SuppressionRule ==
    (fn # "none" /\ arg.tableName /\ ~arg.threw) =>
        (out <=> SuppressionRule(arg.items))

\* C5 witness: the tracker looked up an address whose latest record is a soft
\* bounce exactly 24 hours old, with an older hard bounce behind it, and did
\* not suppress it.
C5_Witness ==
    /\ fn = "BounceTracker.hasEmailBounced"
    /\ ~arg.threw
    /\ Len(arg.items) = 2
    /\ arg.items[1] = Item("soft", 24 * 3600000)
    /\ arg.items[2].bounceType = "hard"
    /\ out = FALSE

\* ---- the immediate path: who is handed to sesService.sendEmail, and results

Times(seq, x) == Cardinality({k \in 1..Len(seq) : seq[k] = x})

\* The bounce lookup classified recipient i as suppressed.
Classified(i) == i \in DOMAIN bounceChecks /\ Suppressed(bounceChecks, i)

\* Results of the call for one address: all of them, and the suppression ones.
ResultsFor(rs, email) == {k \in 1..Len(rs) : rs[k].recipient = email}
BouncedResultsFor(rs, email) ==
    {k \in ResultsFor(rs, email) : ~rs[k].success /\ rs[k].error = ErrBounced}

ImmediateDone == path = "immediate" /\ pc = "done"

\* C6: in the immediate path a recipient classified as suppressed is never
\* handed to the mail transport and contributes exactly one failed result
\* "Email address has previously bounced"; a recipient that is not suppressed
\* is handed to the mail transport exactly once.
C6_SuppressedNeverSentOthersOnce ==
    /\ path = "immediate" =>
          \A k \in 1..Len(sesCalls) : ~Classified(sesCalls[k])
    /\ ImmediateDone =>
          \A i \in 1..Len(recipients) :
              IF Classified(i)
              THEN Cardinality(BouncedResultsFor(ret.results, recipients[i].email))
                     = Cardinality({j \in 1..Len(recipients) :
                                       /\ Classified(j)
                                       /\ recipients[j].email = recipients[i].email})
              ELSE Times(sesCalls, i) = 1

\* C7: suppression fails open: a recipient whose lookup failed is treated as
\* not bounced, stays in the active list and is sent to; the other recipients
\* are classified by their own records, and the job returns a result for
\* every recipient.
C7_FailOpen ==
    path = "immediate" =>
        /\ \A i \in lookupThrew :
              /\ bounceChecks[i] = [status |-> "fulfilled", value |-> FALSE]
              /\ pc \in {"loop", "send", "sleep", "done"} =>
                    Times(activeRecipients, i) = 1
              /\ pc = "done" => Times(sesCalls, i) = 1
        /\ \A j \in DOMAIN bounceChecks :
              (bounceChecks[j].status = "fulfilled" /\ j \notin lookupThrew) =>
                 (bounceChecks[j].value <=>
                    SuppressionRule(bounceTable[toLowerCase(recipients[j].email)]))
        /\ pc = "done" => Len(ret.results) = Len(recipients)

\* C8: the immediate path returns exactly one result per input recipient:
\* results.length = totalRecipients = recipients.length, and every address
\* is the recipient of as many results as it occurs in the input.
C8_OneResultPerRecipient ==
    ImmediateDone =>
        /\ Len(ret.results) = ret.totalRecipients
        /\ ret.totalRecipients = Len(recipients)
        /\ \A e \in AddressUniverse :
              Cardinality(ResultsFor(ret.results, e))
                = Cardinality({i \in 1..Len(recipients) : recipients[i].email = e})

\* C8 witness: the same address twice; the first lookup suppressed it, the
\* second lookup failed and the send succeeded: one result of each kind.
C8_Witness ==
    /\ ImmediateDone
    /\ Len(recipients) = 2
    /\ recipients[1].email = recipients[2].email
    /\ Classified(1)
    /\ 2 \in lookupThrew
    /\ ret.results[1].error = ErrBounced
    /\ ret.results[2].success

\* Recipients whose send failed: SES rejected it or validateMessage threw.
FailedSends ==
    {i \in 1..Len(recipients) :
        \E o \in {"rejected", "invalid"} : <<i, o>> \in sesOutcomes}

\* C9: in the immediate path a failed send (transport error or rejected
\* address) is recorded as a result with success = false and does not leave
\* the processor as an exception: every active recipient after the failing
\* one is still attempted, and the call returns its result.
C9_FailedSendDoesNotAbort ==
    path = "immediate" =>
        /\ \A e \in AddressUniverse :
              Cardinality({k \in ResultsFor(results, e) :
                              /\ ~results[k].success
                              /\ results[k].error \notin {ErrBounced, ErrRegExp}})
                = Cardinality({i \in FailedSends : recipients[i].email = e})
        /\ pc = "done" =>
              \A k \in 1..Len(activeRecipients) :
                 (\E m \in 1..(k - 1) : activeRecipients[m] \in FailedSends) =>
                     Times(sesCalls, activeRecipients[k]) = 1
        /\ (FailedSends # {} /\ pc # "done") =>
              ENABLED (LoopStep \/ SesSettles \/ SleepDone \/ ReturnImmediate)
        /\ (FailedSends # {} /\ pc = "done") =>
              /\ ret.failureCount >= Cardinality(FailedSends)
              /\ Len(ret.results) = Len(recipients)

\* The active recipients the loop has got to: up to idx while the send or the
\* sleep of idx is pending, before idx otherwise.
Reached ==
    IF pc \in {"send", "sleep"} THEN idx
    ELSE IF pc \in {"loop", "done"} THEN idx - 1
    ELSE 0

\* Every send that was issued has settled.
AllSettled ==
    \A k \in 1..Len(sesCalls) : \E o \in {"ok", "rejected", "invalid"} :
        <<sesCalls[k], o>> \in sesOutcomes

\* A send is issued in this step of the immediate path.
SendStarts == path' = "immediate" /\ Len(sesCalls') > Len(sesCalls)

\* C10: within one immediate-path job sends are strictly sequential: at most
\* one send is in flight, sends are issued in the order of the active list,
\* and a send starts only when every earlier send has settled and the delay
\* that follows it has elapsed.
C10_StrictlySequential ==
    /\ [](path = "immediate" =>
            /\ Cardinality(inFlight) <= 1
            /\ \A k \in 1..Len(sesCalls) : \E a \in 1..Reached :
                  /\ activeRecipients[a] = sesCalls[k]
                  /\ \A l \in 1..(k - 1) : \E b \in 1..(a - 1) :
                        activeRecipients[b] = sesCalls[l])
    /\ [][SendStarts =>
            /\ inFlight = {}
            /\ AllSettled
            /\ sleeps = Len(sesCalls)
            /\ timer = 0
            /\ sesCalls' = Append(sesCalls, activeRecipients[idx])]_vars

\* C10 witness: two sends were issued one after the other, each followed by
\* its delay, and the call returned.
C10_Witness ==
    /\ ImmediateDone
    /\ Len(sesCalls) = 2
    /\ sesCalls = activeRecipients
    /\ sleeps = 2
    /\ timer = 0

\* The call of sesService.sendEmail for the current recipient returns.
SendReturns ==
    path = "immediate" /\ Cardinality(sesOutcomes') > Cardinality(sesOutcomes)

\* C11: in the immediate path the 50 ms delay is applied after every send
\* attempt, successful or failed, before the next recipient's send starts.
C11_DelayAfterEverySend ==
    /\ [][SendReturns => (pc' = "sleep" /\ timer' = 50 /\ sleeps' = sleeps + 1)]_vars
    /\ [][SendStarts => (timer = 0 /\ sleeps = Len(sesCalls))]_vars
    /\ []((path = "immediate" /\ pc = "done") =>
             (timer = 0 /\ sleeps = Len(sesCalls)))

\* C11 witness: of two sends the first was rejected and the second accepted,
\* and a delay followed each.
C11_Witness ==
    /\ ImmediateDone
    /\ Len(sesCalls) = 2
    /\ <<sesCalls[1], "rejected">> \in sesOutcomes
    /\ <<sesCalls[2], "ok">> \in sesOutcomes
    /\ sleeps = 2

RECURSIVE Flatten(_)
Flatten(seqs) == IF seqs = <<>> THEN <<>> ELSE Head(seqs) \o Flatten(Tail(seqs))

\* ceil(n / s) for n >= 0, s > 0.
CeilDiv(n, s) == (n + s - 1) \div s

\* C12: for a list of length N and a chunk size S > 0 chunkArray returns
\* ceil(N/S) chunks, each but possibly the last of length S, none empty, whose
\* concatenation in order is the original list.
C12_ChunkArray ==
    fn = "chunkArray" =>
        /\ Len(out) = CeilDiv(Len(arg.array), arg.chunkSize)
        /\ \A k \in 1..(Len(out) - 1) : Len(out[k]) = arg.chunkSize
        /\ \A k \in 1..Len(out) : Len(out[k]) >= 1
        /\ Flatten(out) = arg.array

\* C12 witness: four elements in chunks of three: a full chunk and a last
\* chunk of one.
C12_Witness ==
    /\ fn = "chunkArray"
    /\ Len(arg.array) = 4
    /\ arg.chunkSize = 3
    /\ Len(out) = 2
    /\ Len(out[2]) = 1

\* ---- the queue path

QueueDone == path = "queue" /\ pc = "done"

\* job.options.chunkSize || this.config.defaultChunkSize, as the call saw it.
EffectiveChunkSize ==
    IF options.chunkSize # 0 THEN options.chunkSize ELSE config.defaultChunkSize

AllSubmitted == \A c \in 1..Len(sqsSends) : sqsSends[c].status = "ok"
SomeSubmissionFailed == \E c \in 1..Len(sqsSends) : sqsSends[c].status = "failed"

\* C13: when every chunk submission succeeds the queue dispatcher has
\* submitted ceil(N / chunkSize) messages, which carry the recipients in
\* order, and returns totalRecipients N, successCount 0, failureCount 0, no
\* results and status completed.
C13_AllChunksSubmitted ==
    (QueueDone /\ AllSubmitted) =>
        /\ Len(sqsSends) = CeilDiv(Len(recipients), EffectiveChunkSize)
        /\ Flatten([c \in 1..Len(sqsSends) |-> sqsSends[c].recipients]) = recipients
        /\ ret.totalRecipients = Len(recipients)
        /\ ret.successCount = 0
        /\ ret.failureCount = 0
        /\ ret.results = <<>>
        /\ ret.status = "completed"

\* C13 witness: forceQueue with two recipients and the default chunk size:
\* one message, submitted, and the call returned.
C13_Witness ==
    /\ QueueDone
    /\ AllSubmitted
    /\ options.forceQueue
    /\ Len(recipients) = 2
    /\ EffectiveChunkSize = 10
    /\ Len(sqsSends) = 1
    /\ ret.status = "completed"

\* C14: when a chunk submission fails the queue dispatcher does not throw:
\* it returns status failed, failureCount N, successCount 0 and one failed
\* result per recipient of the job, in whatever chunk, with the queue error.
C14_SubmissionFailureFailsAll ==
    path = "queue" =>
        /\ SomeSubmissionFailed => pc = "done"
        /\ (pc = "done" /\ SomeSubmissionFailed) =>
              /\ ret.status = "failed"
              /\ ret.totalRecipients = Len(recipients)
              /\ ret.failureCount = Len(recipients)
              /\ ret.successCount = 0
              /\ Len(ret.results) = Len(recipients)
              /\ \A k \in 1..Len(recipients) :
                    ret.results[k] = EmailResult(FALSE, ErrQueue, recipients[k].email)

\* C14 witness: of two chunks one was submitted and the other failed; both
\* recipients are reported failed.
C14_Witness ==
    /\ QueueDone
    /\ Len(sqsSends) = 2
    /\ sqsSends[1].status = "ok"
    /\ sqsSends[2].status = "failed"
    /\ ret.failureCount = 2
    /\ Len(ret.results) = 2

\* C15: the queue dispatcher's call completes only once every chunk
\* submission has settled: when the result is returned no submission of the
\* job is still in flight.
C15_ReturnsAfterAllSettled ==
    QueueDone => \A c \in 1..Len(sqsSends) : sqsSends[c].status # "pending"

\* ---- personalization as the spec states it

\* String(value), with undefined and null as the empty string.
StringOrEmpty(v) == IF v.kind \in {"undefined", "null"} THEN <<>> ELSE v.str

\* Every literal occurrence of token in text replaced by the characters of
\* value, from position i on.
RECURSIVE LiteralReplace(_, _, _, _)
LiteralReplace(text, token, value, i) ==
    IF i > Len(text) THEN <<>>
    ELSE IF i + Len(token) - 1 <= Len(text) /\ SubSeq(text, i, i + Len(token) - 1) = token
    THEN value \o LiteralReplace(text, token, value, i + Len(token))
    ELSE <<text[i]>> \o LiteralReplace(text, token, value, i + 1)

RECURSIVE LiteralPersonalize(_, _, _)
LiteralPersonalize(text, data, k) ==
    IF k > Len(data) THEN text
    ELSE LiteralPersonalize(
             LiteralReplace(text, PatternOf(data[k][1]), StringOrEmpty(data[k][2]), 1),
             data, k + 1)

\* C16: personalizeContent returns subject, html and text with every
\* occurrence of {{key}} replaced by String(value) for every key of data,
\* undefined and null giving the empty string and every other value its
\* string form; all other text is unchanged.
C16_PersonalizeContent ==
    /\ fn = "personalizeContent" =>
          /\ ~out.threw
          /\ out.value =
                [subject |-> LiteralPersonalize(arg.content.subject, arg.data, 1),
                 html |-> LiteralPersonalize(arg.content.html, arg.data, 1),
                 text |-> LiteralPersonalize(arg.content.text, arg.data, 1)]
    /\ fn = "lambda.personalizeContent" =>
          /\ ~out.threw
          /\ out.value = LiteralPersonalize(arg.content.html, arg.data, 1)

\* C17: personalization never changes the job's base content: whatever part
\* of the recipient list has been processed, the base content is the
\* original, every message handed to the mail transport carries the original
\* base content personalized with its own recipient's data, and a recipient
\* without personalizedData is sent the base content as it is.
C17_BaseContentNeverMutated ==
    /\ [][path = "immediate" => emailContent' = emailContent]_vars
    /\ [](path = "immediate" =>
            /\ Len(sentContent) = Len(sesCalls)
            /\ \A k \in 1..Len(sesCalls) :
                  LET recipient == recipients[sesCalls[k]] IN
                  sentContent[k] =
                      IF recipient.hasData
                      THEN personalizeContent(emailContent, spreadData(recipient)).value
                      ELSE emailContent)

\* C17 witness: a recipient with data was sent its personalized subject, and
\* the recipient after it, without data, the base content with its tokens.
C17_Witness ==
    /\ ImmediateDone
    /\ Len(sesCalls) = 2
    /\ recipients[1].hasData
    /\ ~recipients[2].hasData
    /\ sentContent[1].subject = <<"B">>
    /\ sentContent[2] = BaseContent

\* ---- validation

DirectSend == path \in {"immediate", "fallback"}

\* The input of the call has a validation error.
MalformedSender == ~emailRegexTest(from)
EmptyContentGiven ==
    Len(emailContent.subject) = 0
    \/ (Len(emailContent.html) = 0 /\ Len(emailContent.text) = 0)
MalformedRecipient(i) == ~emailRegexTest(recipients[i].email)
HasValidationError ==
    MalformedSender \/ EmptyContentGiven
    \/ \E i \in 1..Len(recipients) : MalformedRecipient(i)

\* A SendEmail request for recipient i was made to SES.
ReachedSes(i) ==
    i \in inFlight \/ \E o \in {"ok", "rejected"} : <<i, o>> \in sesOutcomes

\* C18: a bulk send whose input has a validation error (malformed sender or
\* recipient address, empty content) fails fast for the whole call with no
\* partial send: no recipient of the call is handed to the mail transport,
\* so that, at the least, no message of the call reaches SES and none
\* succeeds.
C18_ValidationFailsFast ==
    (DirectSend /\ HasValidationError) =>
        /\ \A i \in 1..Len(recipients) : ~ReachedSes(i)
        /\ pc = "done" => ret.successCount = 0

\* C18 as amended: validation is applied to each recipient's message on its
\* own.  A message with a validation error never reaches SES and every
\* result of its recipient is a failure; the call still returns one result
\* per recipient.
C18_ValidationPerMessage ==
    DirectSend =>
        /\ \A i \in 1..Len(recipients) :
              (MalformedSender \/ EmptyContentGiven \/ MalformedRecipient(i)) =>
                  /\ ~ReachedSes(i)
                  /\ \A k \in ResultsFor(results, recipients[i].email) :
                        ~results[k].success
        /\ pc = "done" => Len(ret.results) = Len(recipients)

\* C18 witness: of two recipients the first has a malformed address and got
\* the validation failure, the second was sent and accepted.
C18_Witness ==
    /\ ImmediateDone
    /\ Len(recipients) = 2
    /\ MalformedRecipient(1)
    /\ ret.results[1] = EmailResult(FALSE, "Invalid recipient email address",
                                    recipients[1].email)
    /\ <<2, "ok">> \in sesOutcomes
    /\ ret.results[2].success

\* ---- what each path touches

NoLookupNoSend ==
    /\ bounceChecks = <<>>
    /\ lookupThrew = {}
    /\ sesCalls = <<>>
    /\ inFlight = {}
    /\ sesOutcomes = {}

\* C19: the queued path performs no bounce lookup and no send and never
\* produces a SendResult for a recipient whose chunk was enqueued; the
\* immediate path submits nothing to the queue transport.
C19_QueuedPathOnlyEnqueues ==
    /\ path = "queue" => NoLookupNoSend
    /\ QueueDone =>
          \A c \in 1..Len(sqsSends) :
              sqsSends[c].status = "ok" =>
                  \A k \in 1..Len(sqsSends[c].recipients) :
                      ResultsFor(ret.results, sqsSends[c].recipients[k].email) = {}
    /\ path = "immediate" => sqsSends = <<>>

\* C19 as amended: the queued path performs no bounce lookup and no send; it
\* returns no SendResult when every chunk was enqueued, and when a
\* submission failed one "Failed to queue" result for every recipient of the
\* job, those of enqueued chunks included; the immediate path submits
\* nothing to the queue transport.
C19_QueuedPathResults ==
    /\ path = "queue" => NoLookupNoSend
    /\ path = "queue" => results = <<>>
    /\ QueueDone =>
          \/ ret.results = <<>> /\ AllSubmitted
          \/ /\ SomeSubmissionFailed
             /\ ret.results =
                    [k \in 1..Len(recipients) |->
                        EmailResult(FALSE, ErrQueue, recipients[k].email)]
    /\ path = "immediate" => sqsSends = <<>>

\* C19 witness: the first chunk's submission failed and the second chunk was
\* enqueued; its recipient has a failed result all the same, and nothing was
\* looked up or sent.
C19_Witness ==
    /\ QueueDone
    /\ Len(sqsSends) = 2
    /\ sqsSends[1].status = "failed"
    /\ sqsSends[2].status = "ok"
    /\ ResultsFor(ret.results, sqsSends[2].recipients[1].email) # {}
    /\ NoLookupNoSend

\* ---- the order of the results

\* The recipients the lookup suppressed and the others, each in input order.
SuppressedInOrder == SelectSeq(Indices(recipients), Classified)
ActiveInOrder ==
    LET NotClassified(i) == ~Classified(i)
    IN SelectSeq(Indices(recipients), NotClassified)

\* C20: the results of an immediate-path job are in recipient order: without
\* a bounce store results[i] is the i-th recipient's; with a bounce store the
\* suppression failures come first, in recipient order, and the results of
\* the active recipients follow, in recipient order.
C20_ResultsInRecipientOrder ==
    ImmediateDone =>
        LET order == SuppressedInOrder \o ActiveInOrder IN
        /\ Len(ret.results) = Len(order)
        /\ \A k \in 1..Len(order) :
              /\ ret.results[k].recipient = recipients[order[k]].email
              /\ k <= Len(SuppressedInOrder) <=>
                    (~ret.results[k].success /\ ret.results[k].error = ErrBounced)
        /\ ~bounceTracker =>
              \A i \in 1..Len(recipients) :
                  ret.results[i].recipient = recipients[i].email

\* C20 witness: with a bounce store the second recipient was suppressed and
\* the first was sent: the suppression failure is the first result.
C20_Witness ==
    /\ ImmediateDone
    /\ bounceTracker
    /\ Len(recipients) = 2
    /\ recipients[1].email # recipients[2].email
    /\ ~Classified(1)
    /\ Classified(2)
    /\ ret.results[1] = EmailResult(FALSE, ErrBounced, recipients[2].email)
    /\ ret.results[2].recipient = recipients[1].email
    /\ ret.results[2].success

\* ---- the delay of a scheduled job

\* C21: the DelaySeconds passed with a chunk message is a non-negative whole
\* number of seconds: the floor of (scheduledFor - now) in seconds when
\* scheduledFor is in the future, 0 when it is now or in the past, and 0 when
\* it is absent.
C21_DelaySeconds ==
    fn = "DelaySeconds" =>
        /\ out \in Nat
        /\ (arg.scheduled /\ arg.scheduledFor > arg.now) =>
              /\ out * 1000 <= arg.scheduledFor - arg.now
              /\ arg.scheduledFor - arg.now < (out + 1) * 1000
        /\ (arg.scheduled /\ arg.scheduledFor <= arg.now) => out = 0
        /\ ~arg.scheduled => out = 0

\* C21 witness: a job scheduled 2250 ms ahead is delayed by 2 seconds.
C21_Witness ==
    /\ fn = "DelaySeconds"
    /\ arg.scheduled
    /\ arg.scheduledFor - arg.now = 2250
    /\ out = 2

\* ---- templates

\* The service was constructed and no method has been called on it yet.
NewlyConstructed == fn = "none"

\* C22: a newly constructed EmailService with no custom templates has the
\* default templates registered: hasTemplate is true for invite and
\* resetPassword in en and es.
C22_DefaultTemplatesRegistered ==
    (NewlyConstructed /\ arg = NoTemplates) =>
        \A type \in {"invite", "resetPassword"}, locale \in {"en", "es"} :
            hasTemplate(templateRegistry, type, locale)

\* The <<locale, renderer>> entries the registry holds for the type of the
\* last query, and the locale the query is for.
EntriesOfType ==
    IF arg.type \in DOMAIN templateRegistry.templates
    THEN {templateRegistry.templates[arg.type][k] :
              k \in 1..Len(templateRegistry.templates[arg.type])}
    ELSE {}
AskedLocale ==
    IF arg.locale = NoLocale THEN templateRegistry.defaultLocale ELSE arg.locale
RendererFor(locale) ==
    (CHOOSE e \in EntriesOfType : e[1] = locale)[2]
HasEntry(locale) == \E e \in EntriesOfType : e[1] = locale

\* C23: after any sequence of registerTemplate, registerFromDefinition,
\* setTemplates and clear calls, getTemplate(type, locale) returns the
\* renderer registered for exactly (type, locale) if there is one, otherwise
\* the one for (type, defaultLocale) if there is one, otherwise some renderer
\* registered for the type, and undefined only when there is none for the
\* type; hasTemplate agrees with getTemplate, and renderTemplate throws
\* "Template '<type>' not found" exactly when getTemplate is undefined.
C23_TemplateLookup ==
    /\ fn = "getTemplate" =>
          IF HasEntry(AskedLocale) THEN out = RendererFor(AskedLocale)
          ELSE IF HasEntry(templateRegistry.defaultLocale)
          THEN out = RendererFor(templateRegistry.defaultLocale)
          ELSE IF EntriesOfType # {} THEN out \in {e[2] : e \in EntriesOfType}
          ELSE out = Undefined
    /\ fn = "hasTemplate" => (out <=> EntriesOfType # {})
    /\ fn = "renderTemplate" =>
          ((/\ out.threw
            /\ Len(out.value) >= 3
            /\ SubSeq(out.value, 1, 3) = << "Template '", arg.type, "' not found" >>)
              <=> EntriesOfType = {})

\* C23 witness: the type has es and en, registered in that order; the query
\* for fr got the renderer of the default locale en, not the first one.
C23_Witness ==
    /\ fn = "getTemplate"
    /\ arg.type = "welcome"
    /\ arg.locale = "fr"
    /\ "welcome" \in DOMAIN templateRegistry.templates
    /\ ObjectKeys(templateRegistry.templates["welcome"]) = << "es", "en" >>
    /\ out = RendererFor("en")

\* ---- the estimate

\* C24: the estimate for n recipients recommends queue if and only if n is
\* greater than the immediate batch threshold (50 by default) and immediate
\* otherwise, and for every n > 0 estimatedMinutes and estimatedBatches are
\* at least 1.
C24_Estimate ==
    fn \in {"estimateSendingTime", "estimateBulkSendingTime"} =>
        /\ out.recommendedStrategy = "queue" <=> arg > config.maxImmediateBatchSize
        /\ out.recommendedStrategy \in {"queue", "immediate"}
        /\ arg > 0 => (out.estimatedMinutes >= 1 /\ out.estimatedBatches >= 1)

\* C24 witness: an EmailService with the default threshold recommends the
\* queue for 51 recipients, in two batches and two minutes.
C24_Witness ==
    /\ fn = "estimateBulkSendingTime"
    /\ config.maxImmediateBatchSize = 50
    /\ arg = 51
    /\ out = Estimate(2, 2, "queue")

\* ---- the chunk messages of a queued job

Submitted == path = "queue" /\ pc \in {"queueing", "done"}

\* C25: the chunk messages submitted for one queued job all carry the jobId
\* the returned BulkJob reports and the same totalChunks, equal to the number
\* of messages submitted; their chunkIndex values are exactly
\* 0..totalChunks-1, each used once; every input recipient, with its
\* personalizedData, is contained in exactly one message.
C25_ChunkMessages ==
    Submitted =>
        /\ \A c \in 1..Len(sqsSends) :
              /\ sqsSends[c].jobId = jobId
              /\ pc = "done" => sqsSends[c].jobId = ret.jobId
              /\ sqsSends[c].totalChunks = Len(sqsSends)
              /\ sqsSends[c].chunkIndex \in 0..(Len(sqsSends) - 1)
        /\ \A k \in 0..(Len(sqsSends) - 1) :
              Cardinality({c \in 1..Len(sqsSends) : sqsSends[c].chunkIndex = k}) = 1
        /\ Flatten([c \in 1..Len(sqsSends) |-> sqsSends[c].recipients]) = recipients

\* C25 witness: two recipients, one of them with personalizedData, went out
\* in two messages of the job the result names.
C25_Witness ==
    /\ Submitted
    /\ pc = "done"
    /\ ret.jobId = "bulk-2-b"
    /\ Len(sqsSends) = 2
    /\ sqsSends[1].recipients = << RcptPlainA >>
    /\ sqsSends[2].recipients = << RcptDataB >>
    /\ sqsSends[2].chunkIndex = 1

\* ---- termination

\* C26: every sendBulkEmails call terminates: for every recipient list and
\* every integer options.chunkSize, with every external call settling, the
\* call eventually returns a BulkJob or fails with an error; a chunkSize of 0
\* or none uses the configured default chunk size, and a non-positive
\* chunkSize never makes the chunking step loop forever.
C26_EveryCallTerminates ==
    /\ [](pc = "chunking" /\ options.chunkSize = 0
             => arg.chunkSize = config.defaultChunkSize)
    /\ (pc # "idle") ~> (pc = "done")

\* ---- EmailService.sendEmail

\* The recipients the lookups of the call reported as bounced.
ReportedBounced == {i \in 1..Len(bounceChecks) : bounceChecks[i].value}

\* C27: EmailService.sendEmail with a bounce tracker checks the recipients of
\* the message in order; if one is reported as bounced it returns a failure
\* naming the first such recipient and hands the message to the mail
\* transport for no recipient; if none is bounced the message is handed to
\* the transport exactly once.
C27_SendEmailBounceCheck ==
    (path = "sendEmail" /\ bounceTracker) =>
        /\ Len(bounceChecks) <= Len(recipients)
        /\ pc = "hasEmailBounced" => Len(bounceChecks) = idx - 1
        /\ \A i \in ReportedBounced :
              /\ i = Len(bounceChecks)
              /\ pc = "done"
              /\ out = EmailResult(FALSE, ErrBouncedPreviously, recipients[i].email)
              /\ sesCalls = <<>>
        /\ sesCalls # <<>> =>
              /\ Len(bounceChecks) = Len(recipients)
              /\ ReportedBounced = {}
        /\ (pc = "done" /\ ReportedBounced = {}) => sesCalls = << arg >>
        /\ Len(sesCalls) <= 1

\* C27 witness: of two recipients the first was not bounced and the second,
\* written in capitals, was: the failure names the second and nothing was
\* handed to the transport.
C27_Witness ==
    /\ path = "sendEmail"
    /\ pc = "done"
    /\ arg = << AddrB, AddrAUpper >>
    /\ ReportedBounced = {2}
    /\ out.recipient = AddrAUpper
    /\ ~out.success
    /\ sesCalls = <<>>

\* ---- bounce handler and lookups

\* A lookup of the sending side whose query was made and answered.
LookupAnswered ==
    /\ fn \in {"BounceTracker.hasEmailBounced", "lambda.hasEmailBounced"}
    /\ arg.tableName
    /\ ~arg.threw

\* The latest record the handler stored under some spelling of the address is
\* a permanent bounce, a reject or a complaint.
PermanentlyRecorded(email) ==
    \E k \in TableKeys :
        /\ toLowerCase(k) = toLowerCase(email)
        /\ bounceTable[k] # <<>>
        /\ bounceTable[k][1].bounceType \in {"hard", "complaint"}

\* C28: once the bounce handler has recorded a permanent bounce, a reject or
\* a complaint for an address, every later lookup of the sending side for a
\* recipient with that address, in whatever letter case either side received
\* it, reports it as bounced: the key the handler stores the record under and
\* the lower-case key BounceTracker looks up coincide.
C28_RecordedBounceSuppresses ==
    /\ \A k \in TableKeys : bounceTable[k] # <<>> => k = toLowerCase(k)
    /\ (LookupAnswered /\ PermanentlyRecorded(arg.email)) => out

\* ---- bulk sends and the bounce store

\* Recipient i was handed to the mail transport: the SES service was called
\* for it and did not refuse the message as invalid.
HandedToTransport(i) ==
    /\ \E k \in 1..Len(sesCalls) : sesCalls[k] = i
    /\ <<i, "invalid">> \notin sesOutcomes

\* The bounce store holds a suppressing record for recipient i, and no lookup
\* for it failed.
CurrentlySuppressed(i) ==
    /\ i \notin lookupThrew
    /\ SuppressionRule(bounceTable[toLowerCase(recipients[i].email)])

\* C29: with a bounce store configured no bulk send hands a currently
\* suppressed address to the mail transport, neither on the immediate path of
\* the bulk service nor on the direct SES fallback of
\* EmailService.sendBulkEmail.
C29_BulkNeverSendsSuppressed ==
    (bounceTracker /\ path \in {"immediate", "fallback"}) =>
        \A i \in 1..Len(recipients) : ~(HandedToTransport(i) /\ CurrentlySuppressed(i))

\* ---- personalization and the order of the keys

\* The orders the entries of a data map can be processed in.
Orders(data) ==
    { [k \in 1..Len(data) |-> data[f[k]]] :
        f \in { g \in [1..Len(data) -> 1..Len(data)] :
                   \A a, b \in 1..Len(data) : a # b => g[a] # g[b] } }

\* The data map without the keys the recipient's address and name are
\* written under.
OwnKeys(data) ==
    LET Own(entry) == entry[1] \notin {KeyRecipientEmail, KeyRecipientName}
    IN SelectSeq(data, Own)

\* C30: personalization does not depend on the order the data keys are
\* processed in: a substituted value is never treated as a token by a later
\* key, so every order of the keys gives the same subject, html and text,
\* with recipientEmail and recipientName overriding the same-named keys of
\* personalizedData.
C30_OrderIndependent ==
    /\ fn = "personalizeContent" =>
          \A data \in Orders(arg.data) :
              personalizeContent(arg.content, data) = out
    /\ fn = "processImmediately.personalizeContent" =>
          \A data \in Orders(OwnKeys(arg.data)
                             \o << << KeyRecipientEmail, JsString(AddrA) >>,
                                   << KeyRecipientName, JsUndefined >> >>) :
              personalizeContent(arg.content, data) = out

====
